---- MODULE Spec2Model ----
(***************************************************************************)
(* A model of package gooptional: the generic Optional and the typed       *)
(* OptionalInt, OptionalFloat and OptionalString wrappers.  The state is   *)
(* one instance held by a client (inst) and the record of the call the       *)
(* client made on it (last): the receiver copy, the arguments, the result, *)
(* the value a panic raised and the caller-supplied functions that were    *)
(* invoked.  Every method is a pure operator translated from its Go body   *)
(* and one action that applies it to the instance held (Spec).  A second   *)
(* specification (SpecConc) runs the statements of Optional.Scan in two    *)
(* goroutines that share the instance.                                     *)
(***************************************************************************)
EXTENDS Integers, Sequences, FiniteSets, TLC

VARIABLES inst, last, pc, scanning, mu, serialised, done, seen

\* the goroutines that call Scan on the shared instance: where each one is in
\* Scan (pc), the src it was called with (scanning), the holder of the callers'
\* mutex (mu, 0 when free), whether the callers use the mutex at all
\* (serialised), the src of the call that returned last (done), and the copy
\* of the instance that a reader took last (seen)
goroutineVars == <<pc, scanning, mu, serialised, done, seen>>

vars == <<inst, last, pc, scanning, mu, serialised, done, seen>>

(***************************************************************************)
(* Bounds of the model.                                                    *)
(***************************************************************************)
\* int payloads range over 0..MaxInt, float64 payloads over 0.0..MaxInt.0 and NaN
MaxInt == 1
\* pointer-like values (ptr, slice, chan, func, map) have addresses 0..MaxAddr; 0 is nil
MaxAddr == 2
\* the variadic constructors and Map's flag are called with 0..MaxArgs arguments
MaxArgs == 2
\* the goroutines that call Scan on one shared Optional
NumGoroutines == 2

(***************************************************************************)
(* Go values.  A value of type interface{} is a record: its dynamic kind,  *)
(* a number (the int, the float64, or the address of a pointer-like value) *)
(* and a text (the string, or the message of an error).                    *)
(***************************************************************************)
V(k, n, s) == [k |-> k, n |-> n, s |-> s]

\* the nil interface value
Nil == V("nil", 0, "")

BoxInt(n) == V("int", n, "")

BoxString(s) == V("string", 0, s)

\* a float64 payload is a record [nan, v]; NaN is the one value not equal to itself
F(v) == [nan |-> FALSE, v |-> v]

NaN == [nan |-> TRUE, v |-> 0]

BoxFloat(f) == V("float64", f.v, IF f.nan THEN "NaN" ELSE "")

\* an error made by fmt.Errorf is a pointer to a struct holding the message
Err(addr, msg) == V("error", addr, msg)

errNotPresent == Err(1, "No value present")

PtrKinds == {"ptr", "slice", "chan", "func", "map"}

Ints == 0..MaxInt

Floats == {F(v) : v \in Ints} \cup {NaN}

Strings == {"", "a", "0x0", "1"}

Errors == {errNotPresent, Err(2, "No value present"), Err(3, "")}

Values ==
  {Nil} \cup {BoxInt(n) : n \in Ints} \cup {BoxString(s) : s \in Strings}
        \cup {BoxFloat(f) : f \in Floats}
        \cup {V(k, a, "") : k \in PtrKinds, a \in 0..MaxAddr}
        \cup Errors

\* what a pointer or a slice with a non-nil address holds: addresses 1 and 2 hold equal contents
Pointee(a) == (a + 1) \div 2

(***************************************************************************)
(* fmt.Sprintf("%p", value).                                               *)
(***************************************************************************)
HexDigits == <<"0", "1", "2", "3", "4", "5", "6", "7", "8", "9", "a", "b", "c", "d", "e", "f">>

RECURSIVE FormatHex(_)
FormatHex(n) ==
  IF n < 16 THEN HexDigits[n + 1] ELSE FormatHex(n \div 16) \o HexDigits[(n % 16) + 1]

RECURSIVE FormatDec(_)
FormatDec(n) ==
  IF n < 10 THEN HexDigits[n + 1] ELSE FormatDec(n \div 10) \o HexDigits[(n % 10) + 1]

SprintfP(value) ==
  CASE value.k \in PtrKinds \cup {"error"} -> "0x" \o FormatHex(value.n)
    [] value.k = "nil" -> "%!p(<nil>)"
    [] value.k = "int" -> "%!p(int=" \o FormatDec(value.n) \o ")"
    [] value.k = "float64" ->
         "%!p(float64=" \o (IF value.s = "NaN" THEN "NaN" ELSE FormatDec(value.n)) \o ")"
    [] value.k = "string" -> "%!p(string=" \o value.s \o ")"

(***************************************************************************)
(* reflect.DeepEqual and reflect.Value.IsZero on the values of the model.  *)
(***************************************************************************)
DeepEqual(x, y) ==
  IF x.k = "nil" \/ y.k = "nil" THEN x = y
  ELSE IF x.k # y.k THEN FALSE
  ELSE CASE x.k = "func" -> x.n = 0 /\ y.n = 0
         [] x.k \in {"ptr", "slice", "map"} ->
              IF (x.n = 0) # (y.n = 0) THEN FALSE
              ELSE x.n = y.n \/ Pointee(x.n) = Pointee(y.n)
         [] x.k = "chan" -> x.n = y.n
         [] x.k = "error" -> IF x.n = y.n THEN TRUE ELSE x.s = y.s
         [] x.k = "float64" -> x.s # "NaN" /\ y.s # "NaN" /\ x.n = y.n
         [] x.k = "int" -> x.n = y.n
         [] x.k = "string" -> x.s = y.s

IsZero(rv) ==
  CASE rv.k = "int" -> rv.n = 0
    [] rv.k = "float64" -> rv.s # "NaN" /\ rv.n = 0
    [] rv.k = "string" -> rv.s = ""
    [] rv.k \in PtrKinds \cup {"error"} -> rv.n = 0

(***************************************************************************)
(* Instances and the record of a call.                                     *)
(***************************************************************************)
\* Optional{}, OptionalInt{}, OptionalFloat{}, OptionalString{}: the zero value of each struct
EmptyOptional == [type |-> "Optional", value |-> Nil, present |-> FALSE]

EmptyOptionalInt == [type |-> "OptionalInt", value |-> 0, present |-> FALSE]

EmptyOptionalFloat == [type |-> "OptionalFloat", value |-> F(0), present |-> FALSE]

EmptyOptionalString == [type |-> "OptionalString", value |-> "", present |-> FALSE]

\* the instances a program can build through the package's API
Optionals == {EmptyOptional} \cup {[EmptyOptional EXCEPT !.value = v, !.present = TRUE] : v \in Values \ {Nil}}

OptionalInts == {EmptyOptionalInt} \cup {[EmptyOptionalInt EXCEPT !.value = v, !.present = TRUE] : v \in Ints}

OptionalFloats == {EmptyOptionalFloat} \cup {[EmptyOptionalFloat EXCEPT !.value = v, !.present = TRUE] : v \in Floats}

OptionalStrings == {EmptyOptionalString} \cup {[EmptyOptionalString EXCEPT !.value = v, !.present = TRUE] : v \in Strings}

\* the argument lists of a variadic parameter: none, or a first argument and up to
\* n - 1 extra ones; the code reads the first alone, and the extra ones are taken equal
ArgLists(S, n) ==
  {<<>>} \cup {[i \in 1..k |-> IF i = 1 THEN x ELSE y] : x \in S, y \in S, k \in 1..n}

\* stands where a call gives no value: a function without result, a call that panicked
NoValue == V("none", 0, "")

\* one invocation of a caller-supplied function: the parameter it was passed as,
\* its argument and what it returned
Invoked(fn, arg, res) == [fn |-> fn, arg |-> arg, res |-> res]

\* how a call ended: it returned ret, or it panicked with panicVal; calls lists the
\* caller-supplied functions it invoked, in order
Returned(ret, calls) == [ret |-> ret, panicked |-> FALSE, panicVal |-> NoValue, calls |-> calls]

Panicked(val, calls) == [ret |-> NoValue, panicked |-> TRUE, panicVal |-> val, calls |-> calls]

CallRecord(op, recv, args, outcome) ==
  [op |-> op, recv |-> recv, args |-> args, ret |-> outcome.ret,
   panicked |-> outcome.panicked, panicVal |-> outcome.panicVal, calls |-> outcome.calls]

NoCall == CallRecord("none", NoValue, <<>>, Returned(NoValue, <<>>))

\* comparison of two float64 with ==
FloatEq(a, b) == ~a.nan /\ ~b.nan /\ a.v = b.v

\* the panic of reflect.Value.IsZero on the zero Value, which reflect.ValueOf(nil) is
reflectIsZeroPanic == Err(4, "reflect: call of reflect.Value.IsZero on zero Value")

(***************************************************************************)
(* Optional: the generic variant.                                          *)
(***************************************************************************)
\* IsNil without the test of the pointer representation: only the nil interface is nil
IsNil_OnlyNilInterface(value) ==
  IF value.k = "string" THEN FALSE
  ELSE value = Nil

IsNil(value) ==
  IF value.k = "string" THEN FALSE
  ELSE (value = Nil) \/ (SprintfP(value) = "0x0")

Of(value) ==
  LET o == EmptyOptional IN
  IF Len(value) = 0 THEN o
  ELSE LET v == value[1] IN
       IF IsNil(v) THEN o
       ELSE [o EXCEPT !.value = v, !.present = TRUE]

\* Equal without the test of the other Optional's flag when this one is empty
Optional_Equal_EmptyEqualsAll(o, opt) ==
  IF ~o.present THEN TRUE
  ELSE IF ~opt.present THEN FALSE
  ELSE DeepEqual(o.value, opt.value)

Optional_Equal(o, opt) ==
  IF ~o.present THEN ~opt.present
  ELSE IF ~opt.present THEN FALSE
  ELSE DeepEqual(o.value, opt.value)

Optional_NotEqual(o, opt) ==
  IF ~o.present THEN opt.present
  ELSE IF ~opt.present THEN TRUE
  ELSE ~DeepEqual(o.value, opt.value)

\* EqualValue without the test of the flag
Optional_EqualValue_NoPresentTest(o, val) == DeepEqual(o.value, val)

Optional_EqualValue(o, val) ==
  IF ~o.present THEN FALSE
  ELSE DeepEqual(o.value, val)

Optional_NotEqualValue(o, val) ==
  IF ~o.present THEN TRUE
  ELSE ~DeepEqual(o.value, val)

\* Filter building a new Optional of the value in place of returning this one
Optional_Filter_Rewrapped(o, predicate) ==
  LET calls == IF o.present THEN <<Invoked("predicate", o.value, predicate[o.value])>> ELSE <<>> IN
  IF o.present /\ predicate[o.value] THEN Returned(Of(<<o.value>>), calls)
  ELSE Returned(EmptyOptional, calls)

Optional_Filter(o, predicate) ==
  LET calls == IF o.present THEN <<Invoked("predicate", o.value, predicate[o.value])>> ELSE <<>> IN
  IF o.present /\ predicate[o.value] THEN Returned(o, calls)
  ELSE Returned(EmptyOptional, calls)

Optional_FilterNot(o, predicate) ==
  LET calls == IF o.present THEN <<Invoked("predicate", o.value, predicate[o.value])>> ELSE <<>> IN
  IF o.present /\ (~predicate[o.value]) THEN Returned(o, calls)
  ELSE Returned(EmptyOptional, calls)

Optional_Get(o) == <<o.value, o.present>>

\* MustGet making a new error at each call in place of the package's one
Optional_MustGet_FreshError(o) ==
  IF ~o.present THEN Panicked(Err(5, "No value present"), <<>>)
  ELSE Returned(o.value, <<>>)

Optional_MustGet(o) ==
  IF ~o.present THEN Panicked(errNotPresent, <<>>)
  ELSE Returned(o.value, <<>>)

Optional_IfPresent(o) ==
  IF o.present THEN Returned(NoValue, <<Invoked("consumer", o.value, NoValue)>>)
  ELSE Returned(NoValue, <<>>)

Optional_IfEmpty(o) ==
  IF ~o.present THEN Returned(NoValue, <<Invoked("f", NoValue, NoValue)>>)
  ELSE Returned(NoValue, <<>>)

Optional_IfPresentOrElse(o) ==
  IF o.present THEN Returned(NoValue, <<Invoked("consumer", o.value, NoValue)>>)
  ELSE Returned(NoValue, <<Invoked("f", NoValue, NoValue)>>)

Optional_IsEmpty(o) == ~o.present

Optional_IsPresent(o) == o.present

\* Map taking a zero value for no value whatever the flag
Optional_Map_ZeroAlwaysEmpty(o, f, zeroValIsEmpty) ==
  IF o.present
  THEN LET v == f[o.value]
           rv == v
           calls == <<Invoked("f", o.value, v)>>
       IN IF IsNil(v) THEN Returned(EmptyOptional, calls)
          ELSE IF IsZero(rv) THEN Returned(EmptyOptional, calls)
               ELSE Returned(Of(<<v>>), calls)
  ELSE Returned(EmptyOptional, <<>>)

Optional_Map(o, f, zeroValIsEmpty) ==
  IF o.present
  THEN LET v == f[o.value]
           rv == v
           calls == <<Invoked("f", o.value, v)>>
       IN IF IsNil(v) THEN Returned(EmptyOptional, calls)
          ELSE IF (Len(zeroValIsEmpty) > 0) /\ zeroValIsEmpty[1] /\ IsZero(rv)
               THEN Returned(EmptyOptional, calls)
               ELSE Returned(Of(<<v>>), calls)
  ELSE Returned(EmptyOptional, <<>>)

\* FlatMap wrapping the value of the Optional that f returned anew
Optional_FlatMap_Rewrapped(o, f) ==
  IF o.present THEN Returned(Of(<<f[o.value].value>>), <<Invoked("f", o.value, f[o.value])>>)
  ELSE Returned(EmptyOptional, <<>>)

Optional_FlatMap(o, f) ==
  IF o.present THEN Returned(f[o.value], <<Invoked("f", o.value, f[o.value])>>)
  ELSE Returned(EmptyOptional, <<>>)

Optional_OrElse(o, value) ==
  IF o.present THEN o.value
  ELSE value

\* OrElseGet that invokes the supplier before it tests present
Optional_OrElseGet_Eager(o, supplier) ==
  Returned(IF o.present THEN o.value ELSE supplier, <<Invoked("supplier", NoValue, supplier)>>)

Optional_OrElseGet(o, supplier) ==
  IF o.present THEN Returned(o.value, <<>>)
  ELSE Returned(supplier, <<Invoked("supplier", NoValue, supplier)>>)

\* OrElsePanic raising the package's error in place of the caller's
Optional_OrElsePanic_NotPresent(o, f) ==
  IF o.present THEN Returned(o.value, <<>>)
  ELSE Panicked(errNotPresent, <<Invoked("f", NoValue, f)>>)

Optional_OrElsePanic(o, f) ==
  IF o.present THEN Returned(o.value, <<>>)
  ELSE Panicked(f, <<Invoked("f", NoValue, f)>>)

\* Scan that sets present whatever src is
Optional_Scan_AlwaysPresent(o, src) == [o EXCEPT !.value = src, !.present = TRUE]

\* Scan that tests src with IsNil, as Of does, and stores it all the same
Optional_Scan_IsNilTest(o, src) == [o EXCEPT !.value = src, !.present = ~IsNil(src)]

Optional_Scan(o, src) == [o EXCEPT !.value = src, !.present = (src # Nil)]

Optional_Value(o) ==
  IF ~o.present THEN <<Nil, Nil>>
  ELSE <<o.value, Nil>>

\* the cross-type mappings of the generic variant
Optional_FlatMapToFloat(o, f) ==
  IF o.present THEN Returned(f[o.value], <<Invoked("f", o.value, f[o.value])>>)
  ELSE Returned(EmptyOptionalFloat, <<>>)

Optional_FlatMapToInt(o, f) ==
  IF o.present THEN Returned(f[o.value], <<Invoked("f", o.value, f[o.value])>>)
  ELSE Returned(EmptyOptionalInt, <<>>)

Optional_FlatMapToString(o, f) ==
  IF o.present THEN Returned(f[o.value], <<Invoked("f", o.value, f[o.value])>>)
  ELSE Returned(EmptyOptionalString, <<>>)

\* the fault the typed variants' MustGet raises; its declaration is in no file of src/
notPresentError == errNotPresent

(***************************************************************************)
(* OptionalInt: the int     variant.                                          *)
(***************************************************************************)
\* OfInt taking the zero value for no value
OfInt_ZeroIsEmpty(value) ==
  LET o == EmptyOptionalInt IN
  IF Len(value) = 0 \/ value[1] = 0 THEN o
  ELSE [o EXCEPT !.value = value[1], !.present = TRUE]

OfInt(value) ==
  LET o == EmptyOptionalInt IN
  IF Len(value) = 0 THEN o
  ELSE [o EXCEPT !.value = value[1], !.present = TRUE]

(***************************************************************************)
(* OptionalFloat: the float64 variant.                                          *)
(***************************************************************************)
OfFloat(value) ==
  LET o == EmptyOptionalFloat IN
  IF Len(value) = 0 THEN o
  ELSE [o EXCEPT !.value = value[1], !.present = TRUE]

(***************************************************************************)
(* OptionalString: the string  variant.                                          *)
(***************************************************************************)
\* OfString that wraps the zero value when it is given no argument
OfString_NoArgumentIsPresent(value) ==
  LET o == EmptyOptionalString IN
  IF Len(value) = 0 THEN [o EXCEPT !.present = TRUE]
  ELSE [o EXCEPT !.value = value[1], !.present = TRUE]

OfString(value) ==
  LET o == EmptyOptionalString IN
  IF Len(value) = 0 THEN o
  ELSE [o EXCEPT !.value = value[1], !.present = TRUE]

\* OptionalInt: the methods
OptionalInt_Equal(o, opt) ==
  IF ~o.present THEN ~opt.present
  ELSE IF ~opt.present THEN FALSE
  ELSE o.value = opt.value

OptionalInt_NotEqual(o, opt) ==
  IF ~o.present THEN opt.present
  ELSE IF ~opt.present THEN TRUE
  ELSE o.value # opt.value

OptionalInt_EqualValue(o, val) ==
  IF ~o.present THEN FALSE
  ELSE o.value = val

OptionalInt_NotEqualValue(o, val) ==
  IF ~o.present THEN TRUE
  ELSE o.value # val

OptionalInt_Filter(o, predicate) ==
  LET calls == IF o.present THEN <<Invoked("predicate", o.value, predicate[o.value])>> ELSE <<>> IN
  IF o.present /\ predicate[o.value] THEN Returned(o, calls)
  ELSE Returned(EmptyOptionalInt, calls)

OptionalInt_FilterNot(o, predicate) ==
  LET calls == IF o.present THEN <<Invoked("predicate", o.value, predicate[o.value])>> ELSE <<>> IN
  IF o.present /\ (~predicate[o.value]) THEN Returned(o, calls)
  ELSE Returned(EmptyOptionalInt, calls)

OptionalInt_Get(o) == <<o.value, o.present>>

OptionalInt_IfPresent(o) ==
  IF o.present THEN Returned(NoValue, <<Invoked("consumer", o.value, NoValue)>>)
  ELSE Returned(NoValue, <<>>)

OptionalInt_IfEmpty(o) ==
  IF ~o.present THEN Returned(NoValue, <<Invoked("f", NoValue, NoValue)>>)
  ELSE Returned(NoValue, <<>>)

OptionalInt_IfPresentOrElse(o) ==
  IF o.present THEN Returned(NoValue, <<Invoked("consumer", o.value, NoValue)>>)
  ELSE Returned(NoValue, <<Invoked("f", NoValue, NoValue)>>)

OptionalInt_IsEmpty(o) == ~o.present

OptionalInt_IsPresent(o) == o.present

OptionalInt_FlatMap(o, f) ==
  IF o.present THEN Returned(f[o.value], <<Invoked("f", o.value, f[o.value])>>)
  ELSE Returned(EmptyOptionalInt, <<>>)

OptionalInt_Map(o, f) ==
  IF o.present THEN Returned(OfInt(<<f[o.value]>>), <<Invoked("f", o.value, f[o.value])>>)
  ELSE Returned(EmptyOptionalInt, <<>>)

OptionalInt_FlatMapTo(o, f) ==
  IF o.present THEN Returned(f[o.value], <<Invoked("f", o.value, f[o.value])>>)
  ELSE Returned(EmptyOptional, <<>>)

OptionalInt_MapTo(o, f) ==
  IF o.present
  THEN LET v == f[o.value]
           calls == <<Invoked("f", o.value, v)>>
       IN IF v.k = "nil" THEN Panicked(reflectIsZeroPanic, calls)
          ELSE IF ~IsZero(v) THEN Returned(Of(<<v>>), calls)
          ELSE Returned(EmptyOptional, calls)
  ELSE Returned(EmptyOptional, <<>>)

OptionalInt_FlatMapToFloat(o, f) ==
  IF o.present THEN Returned(f[o.value], <<Invoked("f", o.value, f[o.value])>>)
  ELSE Returned(EmptyOptionalFloat, <<>>)

OptionalInt_MapToFloat(o, f) ==
  IF o.present THEN Returned(OfFloat(<<f[o.value]>>), <<Invoked("f", o.value, f[o.value])>>)
  ELSE Returned(EmptyOptionalFloat, <<>>)

OptionalInt_FlatMapToString(o, f) ==
  IF o.present THEN Returned(f[o.value], <<Invoked("f", o.value, f[o.value])>>)
  ELSE Returned(EmptyOptionalString, <<>>)

OptionalInt_MapToString(o, f) ==
  IF o.present THEN Returned(OfString(<<f[o.value]>>), <<Invoked("f", o.value, f[o.value])>>)
  ELSE Returned(EmptyOptionalString, <<>>)

OptionalInt_MustGet(o) ==
  IF ~o.present THEN Panicked(notPresentError, <<>>)
  ELSE Returned(o.value, <<>>)

OptionalInt_OrElse(o, value) ==
  IF o.present THEN o.value
  ELSE value

OptionalInt_OrElseGet(o, supplier) ==
  IF o.present THEN Returned(o.value, <<>>)
  ELSE Returned(supplier, <<Invoked("supplier", NoValue, supplier)>>)

OptionalInt_OrElsePanic(o, f) ==
  IF o.present THEN Returned(o.value, <<>>)
  ELSE Panicked(f, <<Invoked("f", NoValue, f)>>)

\* Value without the test of present
OptionalInt_Value_NoPresentTest(o) == <<BoxInt(o.value), Nil>>

OptionalInt_Value(o) ==
  IF ~o.present THEN <<Nil, Nil>>
  ELSE <<BoxInt(o.value), Nil>>

\* OptionalFloat: the methods
OptionalFloat_Equal(o, opt) ==
  IF ~o.present THEN ~opt.present
  ELSE IF ~opt.present THEN FALSE
  ELSE FloatEq(o.value, opt.value)

OptionalFloat_NotEqual(o, opt) ==
  IF ~o.present THEN opt.present
  ELSE IF ~opt.present THEN TRUE
  ELSE ~FloatEq(o.value, opt.value)

OptionalFloat_EqualValue(o, val) ==
  IF ~o.present THEN FALSE
  ELSE FloatEq(o.value, val)

OptionalFloat_NotEqualValue(o, val) ==
  IF ~o.present THEN TRUE
  ELSE ~FloatEq(o.value, val)

OptionalFloat_Filter(o, predicate) ==
  LET calls == IF o.present THEN <<Invoked("predicate", o.value, predicate[o.value])>> ELSE <<>> IN
  IF o.present /\ predicate[o.value] THEN Returned(o, calls)
  ELSE Returned(EmptyOptionalFloat, calls)

OptionalFloat_FilterNot(o, predicate) ==
  LET calls == IF o.present THEN <<Invoked("predicate", o.value, predicate[o.value])>> ELSE <<>> IN
  IF o.present /\ (~predicate[o.value]) THEN Returned(o, calls)
  ELSE Returned(EmptyOptionalFloat, calls)

OptionalFloat_Get(o) == <<o.value, o.present>>

OptionalFloat_IfPresent(o) ==
  IF o.present THEN Returned(NoValue, <<Invoked("consumer", o.value, NoValue)>>)
  ELSE Returned(NoValue, <<>>)

OptionalFloat_IfEmpty(o) ==
  IF ~o.present THEN Returned(NoValue, <<Invoked("f", NoValue, NoValue)>>)
  ELSE Returned(NoValue, <<>>)

OptionalFloat_IfPresentOrElse(o) ==
  IF o.present THEN Returned(NoValue, <<Invoked("consumer", o.value, NoValue)>>)
  ELSE Returned(NoValue, <<Invoked("f", NoValue, NoValue)>>)

OptionalFloat_IsEmpty(o) == ~o.present

OptionalFloat_IsPresent(o) == o.present

OptionalFloat_FlatMap(o, f) ==
  IF o.present THEN Returned(f[o.value], <<Invoked("f", o.value, f[o.value])>>)
  ELSE Returned(EmptyOptionalFloat, <<>>)

OptionalFloat_Map(o, f) ==
  IF o.present THEN Returned(OfFloat(<<f[o.value]>>), <<Invoked("f", o.value, f[o.value])>>)
  ELSE Returned(EmptyOptionalFloat, <<>>)

OptionalFloat_FlatMapTo(o, f) ==
  IF o.present THEN Returned(f[o.value], <<Invoked("f", o.value, f[o.value])>>)
  ELSE Returned(EmptyOptional, <<>>)

OptionalFloat_MapTo(o, f) ==
  IF o.present
  THEN LET v == f[o.value]
           calls == <<Invoked("f", o.value, v)>>
       IN IF v.k = "nil" THEN Panicked(reflectIsZeroPanic, calls)
          ELSE IF ~IsZero(v) THEN Returned(Of(<<v>>), calls)
          ELSE Returned(EmptyOptional, calls)
  ELSE Returned(EmptyOptional, <<>>)

OptionalFloat_FlatMapToInt(o, f) ==
  IF o.present THEN Returned(f[o.value], <<Invoked("f", o.value, f[o.value])>>)
  ELSE Returned(EmptyOptionalInt, <<>>)

OptionalFloat_MapToInt(o, f) ==
  IF o.present THEN Returned(OfInt(<<f[o.value]>>), <<Invoked("f", o.value, f[o.value])>>)
  ELSE Returned(EmptyOptionalInt, <<>>)

OptionalFloat_FlatMapToString(o, f) ==
  IF o.present THEN Returned(f[o.value], <<Invoked("f", o.value, f[o.value])>>)
  ELSE Returned(EmptyOptionalString, <<>>)

OptionalFloat_MapToString(o, f) ==
  IF o.present THEN Returned(OfString(<<f[o.value]>>), <<Invoked("f", o.value, f[o.value])>>)
  ELSE Returned(EmptyOptionalString, <<>>)

OptionalFloat_MustGet(o) ==
  IF ~o.present THEN Panicked(notPresentError, <<>>)
  ELSE Returned(o.value, <<>>)

OptionalFloat_OrElse(o, value) ==
  IF o.present THEN o.value
  ELSE value

OptionalFloat_OrElseGet(o, supplier) ==
  IF o.present THEN Returned(o.value, <<>>)
  ELSE Returned(supplier, <<Invoked("supplier", NoValue, supplier)>>)

OptionalFloat_OrElsePanic(o, f) ==
  IF o.present THEN Returned(o.value, <<>>)
  ELSE Panicked(f, <<Invoked("f", NoValue, f)>>)

OptionalFloat_Value(o) ==
  IF ~o.present THEN <<Nil, Nil>>
  ELSE <<BoxFloat(o.value), Nil>>

\* OptionalString: the methods
OptionalString_Equal(o, opt) ==
  IF ~o.present THEN ~opt.present
  ELSE IF ~opt.present THEN FALSE
  ELSE o.value = opt.value

OptionalString_NotEqual(o, opt) ==
  IF ~o.present THEN opt.present
  ELSE IF ~opt.present THEN TRUE
  ELSE o.value # opt.value

OptionalString_EqualValue(o, val) ==
  IF ~o.present THEN FALSE
  ELSE o.value = val

OptionalString_NotEqualValue(o, val) ==
  IF ~o.present THEN TRUE
  ELSE o.value # val

OptionalString_Filter(o, predicate) ==
  LET calls == IF o.present THEN <<Invoked("predicate", o.value, predicate[o.value])>> ELSE <<>> IN
  IF o.present /\ predicate[o.value] THEN Returned(o, calls)
  ELSE Returned(EmptyOptionalString, calls)

OptionalString_FilterNot(o, predicate) ==
  LET calls == IF o.present THEN <<Invoked("predicate", o.value, predicate[o.value])>> ELSE <<>> IN
  IF o.present /\ (~predicate[o.value]) THEN Returned(o, calls)
  ELSE Returned(EmptyOptionalString, calls)

OptionalString_Get(o) == <<o.value, o.present>>

OptionalString_IfPresent(o) ==
  IF o.present THEN Returned(NoValue, <<Invoked("consumer", o.value, NoValue)>>)
  ELSE Returned(NoValue, <<>>)

\* IfEmpty without the test of the flag
OptionalString_IfEmpty_Always(o) == Returned(NoValue, <<Invoked("f", NoValue, NoValue)>>)

OptionalString_IfEmpty(o) ==
  IF ~o.present THEN Returned(NoValue, <<Invoked("f", NoValue, NoValue)>>)
  ELSE Returned(NoValue, <<>>)

OptionalString_IfPresentOrElse(o) ==
  IF o.present THEN Returned(NoValue, <<Invoked("consumer", o.value, NoValue)>>)
  ELSE Returned(NoValue, <<Invoked("f", NoValue, NoValue)>>)

OptionalString_IsEmpty(o) == ~o.present

OptionalString_IsPresent(o) == o.present

OptionalString_FlatMap(o, f) ==
  IF o.present THEN Returned(f[o.value], <<Invoked("f", o.value, f[o.value])>>)
  ELSE Returned(EmptyOptionalString, <<>>)

OptionalString_Map(o, f) ==
  IF o.present THEN Returned(OfString(<<f[o.value]>>), <<Invoked("f", o.value, f[o.value])>>)
  ELSE Returned(EmptyOptionalString, <<>>)

OptionalString_FlatMapTo(o, f) ==
  IF o.present THEN Returned(f[o.value], <<Invoked("f", o.value, f[o.value])>>)
  ELSE Returned(EmptyOptional, <<>>)

OptionalString_MapTo(o, f) ==
  IF o.present
  THEN LET v == f[o.value]
           calls == <<Invoked("f", o.value, v)>>
       IN IF v.k = "nil" THEN Panicked(reflectIsZeroPanic, calls)
          ELSE IF ~IsZero(v) THEN Returned(Of(<<v>>), calls)
          ELSE Returned(EmptyOptional, calls)
  ELSE Returned(EmptyOptional, <<>>)

OptionalString_FlatMapToFloat(o, f) ==
  IF o.present THEN Returned(f[o.value], <<Invoked("f", o.value, f[o.value])>>)
  ELSE Returned(EmptyOptionalFloat, <<>>)

OptionalString_MapToFloat(o, f) ==
  IF o.present THEN Returned(OfFloat(<<f[o.value]>>), <<Invoked("f", o.value, f[o.value])>>)
  ELSE Returned(EmptyOptionalFloat, <<>>)

OptionalString_FlatMapToInt(o, f) ==
  IF o.present THEN Returned(f[o.value], <<Invoked("f", o.value, f[o.value])>>)
  ELSE Returned(EmptyOptionalInt, <<>>)

OptionalString_MapToInt(o, f) ==
  IF o.present THEN Returned(OfInt(<<f[o.value]>>), <<Invoked("f", o.value, f[o.value])>>)
  ELSE Returned(EmptyOptionalInt, <<>>)

OptionalString_MustGet(o) ==
  IF ~o.present THEN Panicked(notPresentError, <<>>)
  ELSE Returned(o.value, <<>>)

OptionalString_OrElse(o, value) ==
  IF o.present THEN o.value
  ELSE value

OptionalString_OrElseGet(o, supplier) ==
  IF o.present THEN Returned(o.value, <<>>)
  ELSE Returned(supplier, <<Invoked("supplier", NoValue, supplier)>>)

OptionalString_OrElsePanic(o, f) ==
  IF o.present THEN Returned(o.value, <<>>)
  ELSE Panicked(f, <<Invoked("f", NoValue, f)>>)

\* Value that writes the empty text as NULL
OptionalString_Value_EmptyIsNull(o) ==
  IF ~o.present \/ o.value = "" THEN <<Nil, Nil>>
  ELSE <<BoxString(o.value), Nil>>

OptionalString_Value(o) ==
  IF ~o.present THEN <<Nil, Nil>>
  ELSE <<BoxString(o.value), Nil>>

(***************************************************************************)
(* MapToFloat, MapToInt and MapToString of the generic variant.            *)
(***************************************************************************)
\* MapToInt with the zero test that MapTo of the typed variants has
Optional_MapToInt_ZeroIsEmpty(o, f) ==
  IF o.present /\ f[o.value] # 0
  THEN Returned(OfInt(<<f[o.value]>>), <<Invoked("f", o.value, f[o.value])>>)
  ELSE Returned(EmptyOptionalInt, IF o.present THEN <<Invoked("f", o.value, f[o.value])>> ELSE <<>>)

Optional_MapToFloat(o, f) ==
  IF o.present THEN Returned(OfFloat(<<f[o.value]>>), <<Invoked("f", o.value, f[o.value])>>)
  ELSE Returned(EmptyOptionalFloat, <<>>)

Optional_MapToInt(o, f) ==
  IF o.present THEN Returned(OfInt(<<f[o.value]>>), <<Invoked("f", o.value, f[o.value])>>)
  ELSE Returned(EmptyOptionalInt, <<>>)

Optional_MapToString(o, f) ==
  IF o.present THEN Returned(OfString(<<f[o.value]>>), <<Invoked("f", o.value, f[o.value])>>)
  ELSE Returned(EmptyOptionalString, <<>>)

(***************************************************************************)
(* database/sql as the typed Scan methods use it: sql.NullInt64.Scan,      *)
(* sql.NullFloat64.Scan and sql.NullString.Scan, with the conversion they  *)
(* delegate to (convertAssign, asString, strconv.ParseInt and ParseFloat). *)
(***************************************************************************)
\* fmt.Sprintf("%v", value)
SprintfV(value) ==
  CASE value.k = "nil" -> "<nil>"
    [] value.k = "int" -> FormatDec(value.n)
    [] value.k = "float64" -> IF value.s = "NaN" THEN "NaN" ELSE FormatDec(value.n)
    [] value.k = "string" -> value.s
    [] value.k = "error" -> value.s
    [] value.k \in {"ptr", "chan", "func"} ->
         IF value.n = 0 THEN "<nil>" ELSE "0x" \o FormatHex(value.n)
    [] value.k = "slice" ->
         IF value.n = 0 THEN "[]" ELSE "[" \o FormatDec(Pointee(value.n)) \o "]"
    [] value.k = "map" ->
         IF value.n = 0 THEN "map[]"
         ELSE "map[" \o FormatDec(Pointee(value.n)) \o ":" \o FormatDec(Pointee(value.n)) \o "]"

\* sql.asString: strings as they are, numbers by strconv.FormatInt and FormatFloat('g'), the rest by %v
asString(src) ==
  CASE src.k = "string" -> src.s
    [] src.k = "int" -> FormatDec(src.n)
    [] src.k = "float64" -> IF src.s = "NaN" THEN "NaN" ELSE FormatDec(src.n)
    [] OTHER -> SprintfV(src)

\* strconv.ParseInt(s, 10, 64): s is accepted when it is the decimal text of an integer
ParseInt(s) ==
  IF \E n \in Ints : FormatDec(n) = s
  THEN [ok |-> TRUE, v |-> CHOOSE n \in Ints : FormatDec(n) = s]
  ELSE [ok |-> FALSE, v |-> 0]

\* strconv.ParseFloat(s, 64): decimal texts and "NaN"; a hexadecimal text needs an exponent
ParseFloat(s) ==
  IF s = "NaN" THEN [ok |-> TRUE, v |-> NaN]
  ELSE IF ParseInt(s).ok THEN [ok |-> TRUE, v |-> F(ParseInt(s).v)]
  ELSE [ok |-> FALSE, v |-> F(0)]

\* sql.convertAssign(&dest, src) for a non-nil src; dest is an int64, a float64 or a string.
\* The error is a fresh value made by fmt.Errorf.
convertAssign(dest, src) ==
  CASE dest = "string" ->
         IF src.k \in {"string", "int", "float64"} THEN [err |-> Nil, v |-> asString(src)]
         ELSE [err |-> Err(5, "unsupported Scan, storing driver.Value type " \o src.k \o " into type *string"),
               v |-> ""]
    [] dest = "int64" ->
         LET i64 == ParseInt(asString(src))
         IN  IF i64.ok THEN [err |-> Nil, v |-> i64.v]
             ELSE [err |-> Err(5, "converting driver.Value type " \o src.k \o " (\"" \o asString(src)
                                    \o "\") to a int64: invalid syntax"),
                   v |-> 0]
    [] dest = "float64" ->
         IF src.k = "float64" THEN [err |-> Nil, v |-> IF src.s = "NaN" THEN NaN ELSE F(src.n)]
         ELSE LET f64 == ParseFloat(asString(src))
              IN  IF f64.ok THEN [err |-> Nil, v |-> f64.v]
                  ELSE [err |-> Err(5, "converting driver.Value type " \o src.k \o " (\"" \o asString(src)
                                         \o "\") to a float64: invalid syntax"),
                        v |-> F(0)]

NullInt64_Scan(value) ==
  IF value = Nil THEN [Int64 |-> 0, Valid |-> FALSE, err |-> Nil]
  ELSE [Int64 |-> convertAssign("int64", value).v, Valid |-> TRUE,
        err |-> convertAssign("int64", value).err]

NullFloat64_Scan(value) ==
  IF value = Nil THEN [Float64 |-> F(0), Valid |-> FALSE, err |-> Nil]
  ELSE [Float64 |-> convertAssign("float64", value).v, Valid |-> TRUE,
        err |-> convertAssign("float64", value).err]

NullString_Scan(value) ==
  IF value = Nil THEN [String |-> "", Valid |-> FALSE, err |-> Nil]
  ELSE [String |-> convertAssign("string", value).v, Valid |-> TRUE,
        err |-> convertAssign("string", value).err]

(***************************************************************************)
(* Scan of the typed variants: the receiver after the call and the error   *)
(* returned.                                                               *)
(***************************************************************************)
\* Scan that takes present from the Valid flag of the sql.NullInt64
OptionalInt_Scan_NullIsAbsent(o, src) ==
  LET val == NullInt64_Scan(src)
  IN  IF val.err # Nil THEN [o |-> o, err |-> val.err]
      ELSE [o |-> [o EXCEPT !.value = val.Int64, !.present = val.Valid], err |-> Nil]

OptionalInt_Scan(o, src) ==
  LET val == NullInt64_Scan(src)
  IN  IF val.err # Nil THEN [o |-> o, err |-> val.err]
      ELSE [o |-> [o EXCEPT !.value = val.Int64, !.present = TRUE], err |-> Nil]

\* Scan that assigns the fields before it looks at the error
OptionalFloat_Scan_AssignsFirst(o, src) ==
  LET val == NullFloat64_Scan(src)
  IN  [o |-> [o EXCEPT !.value = val.Float64, !.present = TRUE], err |-> val.err]

OptionalFloat_Scan(o, src) ==
  LET val == NullFloat64_Scan(src)
  IN  IF val.err # Nil THEN [o |-> o, err |-> val.err]
      ELSE [o |-> [o EXCEPT !.value = val.Float64, !.present = TRUE], err |-> Nil]

\* Scan that keeps what a present receiver holds
OptionalString_Scan_FillsEmptyOnly(o, src) ==
  LET val == NullString_Scan(src)
  IN  IF val.err # Nil THEN [o |-> o, err |-> val.err]
      ELSE IF o.present THEN [o |-> o, err |-> Nil]
      ELSE [o |-> [o EXCEPT !.value = val.String, !.present = TRUE], err |-> Nil]

OptionalString_Scan(o, src) ==
  LET val == NullString_Scan(src)
  IN  IF val.err # Nil THEN [o |-> o, err |-> val.err]
      ELSE [o |-> [o EXCEPT !.value = val.String, !.present = TRUE], err |-> Nil]

(***************************************************************************)
(* Iter and String.  The iterator goiter.Of makes is the sequence of the   *)
(* values it will yield.                                                   *)
(***************************************************************************)
\* Iter that yields the value field also when the instance is absent
Optional_Iter_NoPresentTest(o) == <<o.value>>

Optional_Iter(o) ==
  IF o.present THEN <<o.value>>
  ELSE <<>>

\* Iter of OptionalInt and OptionalString: the methods are in no file of src/,
\* their tests are (TestOptionalIntIter, TestOptionalStringIter)
OptionalInt_Iter(o) ==
  IF o.present THEN <<BoxInt(o.value)>>
  ELSE <<>>

OptionalString_Iter(o) ==
  IF o.present THEN <<BoxString(o.value)>>
  ELSE <<>>

Optional_String(o) ==
  IF o.present THEN "Optional (" \o SprintfV(o.value) \o ")"
  ELSE "Optional"

OptionalInt_String(o) ==
  IF o.present THEN "OptionalInt (" \o SprintfV(BoxInt(o.value)) \o ")"
  ELSE "OptionalInt"

OptionalFloat_String(o) ==
  IF o.present THEN "OptionalFloat (" \o SprintfV(BoxFloat(o.value)) \o ")"
  ELSE "OptionalFloat"

OptionalString_String(o) ==
  IF o.present THEN "OptionalString (" \o SprintfV(BoxString(o.value)) \o ")"
  ELSE "OptionalString"

(***************************************************************************)
(* The client.  It declares an instance or builds one with a constructor,  *)
(* and calls the methods of the instance it holds; the caller-supplied     *)
(* functions range over every result they can give on the value held.      *)
(***************************************************************************)
Goroutines == 1..NumGoroutines

\* no goroutine is in Scan, none has returned, no reader has looked
NoScanRunning ==
  /\ pc = [g \in Goroutines |-> "idle"]
  /\ scanning = [g \in Goroutines |-> Nil]
  /\ mu = 0
  /\ done = Nil
  /\ seen = EmptyOptional

Init ==
  /\ \/ inst = EmptyOptional
     \/ inst = EmptyOptionalInt
     \/ inst = EmptyOptionalFloat
     \/ inst = EmptyOptionalString
  /\ last = NoCall
  /\ NoScanRunning
  /\ serialised = TRUE

\* the client is between two calls
Idle == last.op = "none"

Construct ==
  \/ \E value \in ArgLists(Values, MaxArgs) :
       /\ Idle
       /\ inst' = Of(value)
       /\ UNCHANGED goroutineVars
       /\ last' = CallRecord("Of", NoValue, value, Returned(Of(value), <<>>))
  \/ \E value \in ArgLists(Ints, MaxArgs) :
       /\ Idle
       /\ inst' = OfInt(value)
       /\ UNCHANGED goroutineVars
       /\ last' = CallRecord("OfInt", NoValue, value, Returned(OfInt(value), <<>>))
  \/ \E value \in ArgLists(Floats, MaxArgs) :
       /\ Idle
       /\ inst' = OfFloat(value)
       /\ UNCHANGED goroutineVars
       /\ last' = CallRecord("OfFloat", NoValue, value, Returned(OfFloat(value), <<>>))
  \/ \E value \in ArgLists(Strings, MaxArgs) :
       /\ Idle
       /\ inst' = OfString(value)
       /\ UNCHANGED goroutineVars
       /\ last' = CallRecord("OfString", NoValue, value, Returned(OfString(value), <<>>))

OptionalCall ==
  \/ /\ Idle
     /\ inst.type = "Optional"
     /\ \E opt \in Optionals : last' = CallRecord("Optional.Equal", inst, <<opt>>, Returned(Optional_Equal(inst, opt), <<>>))
     /\ UNCHANGED <<inst, goroutineVars>>
  \/ /\ Idle
     /\ inst.type = "Optional"
     /\ \E opt \in Optionals : last' = CallRecord("Optional.NotEqual", inst, <<opt>>, Returned(Optional_NotEqual(inst, opt), <<>>))
     /\ UNCHANGED <<inst, goroutineVars>>
  \/ /\ Idle
     /\ inst.type = "Optional"
     /\ \E val \in Values : last' = CallRecord("Optional.EqualValue", inst, <<val>>, Returned(Optional_EqualValue(inst, val), <<>>))
     /\ UNCHANGED <<inst, goroutineVars>>
  \/ /\ Idle
     /\ inst.type = "Optional"
     /\ \E val \in Values : last' = CallRecord("Optional.NotEqualValue", inst, <<val>>, Returned(Optional_NotEqualValue(inst, val), <<>>))
     /\ UNCHANGED <<inst, goroutineVars>>
  \/ /\ Idle
     /\ inst.type = "Optional"
     /\ \E predicate \in [{inst.value} -> BOOLEAN] : last' = CallRecord("Optional.Filter", inst, <<predicate>>, Optional_Filter(inst, predicate))
     /\ UNCHANGED <<inst, goroutineVars>>
  \/ /\ Idle
     /\ inst.type = "Optional"
     /\ \E predicate \in [{inst.value} -> BOOLEAN] : last' = CallRecord("Optional.FilterNot", inst, <<predicate>>, Optional_FilterNot(inst, predicate))
     /\ UNCHANGED <<inst, goroutineVars>>
  \/ /\ Idle
     /\ inst.type = "Optional"
     /\ last' = CallRecord("Optional.Get", inst, <<>>, Returned(Optional_Get(inst), <<>>))
     /\ UNCHANGED <<inst, goroutineVars>>
  \/ /\ Idle
     /\ inst.type = "Optional"
     /\ last' = CallRecord("Optional.MustGet", inst, <<>>, Optional_MustGet(inst))
     /\ UNCHANGED <<inst, goroutineVars>>
  \/ /\ Idle
     /\ inst.type = "Optional"
     /\ last' = CallRecord("Optional.IfPresent", inst, <<>>, Optional_IfPresent(inst))
     /\ UNCHANGED <<inst, goroutineVars>>
  \/ /\ Idle
     /\ inst.type = "Optional"
     /\ last' = CallRecord("Optional.IfEmpty", inst, <<>>, Optional_IfEmpty(inst))
     /\ UNCHANGED <<inst, goroutineVars>>
  \/ /\ Idle
     /\ inst.type = "Optional"
     /\ last' = CallRecord("Optional.IfPresentOrElse", inst, <<>>, Optional_IfPresentOrElse(inst))
     /\ UNCHANGED <<inst, goroutineVars>>
  \/ /\ Idle
     /\ inst.type = "Optional"
     /\ last' = CallRecord("Optional.IsEmpty", inst, <<>>, Returned(Optional_IsEmpty(inst), <<>>))
     /\ UNCHANGED <<inst, goroutineVars>>
  \/ /\ Idle
     /\ inst.type = "Optional"
     /\ last' = CallRecord("Optional.IsPresent", inst, <<>>, Returned(Optional_IsPresent(inst), <<>>))
     /\ UNCHANGED <<inst, goroutineVars>>
  \/ /\ Idle
     /\ inst.type = "Optional"
     /\ \E f \in [{inst.value} -> Values], zeroValIsEmpty \in ArgLists(BOOLEAN, MaxArgs) : last' = CallRecord("Optional.Map", inst, <<f, zeroValIsEmpty>>, Optional_Map(inst, f, zeroValIsEmpty))
     /\ UNCHANGED <<inst, goroutineVars>>
  \/ /\ Idle
     /\ inst.type = "Optional"
     /\ \E f \in [{inst.value} -> Optionals] : last' = CallRecord("Optional.FlatMap", inst, <<f>>, Optional_FlatMap(inst, f))
     /\ UNCHANGED <<inst, goroutineVars>>
  \/ /\ Idle
     /\ inst.type = "Optional"
     /\ \E f \in [{inst.value} -> OptionalFloats] : last' = CallRecord("Optional.FlatMapToFloat", inst, <<f>>, Optional_FlatMapToFloat(inst, f))
     /\ UNCHANGED <<inst, goroutineVars>>
  \/ /\ Idle
     /\ inst.type = "Optional"
     /\ \E f \in [{inst.value} -> OptionalInts] : last' = CallRecord("Optional.FlatMapToInt", inst, <<f>>, Optional_FlatMapToInt(inst, f))
     /\ UNCHANGED <<inst, goroutineVars>>
  \/ /\ Idle
     /\ inst.type = "Optional"
     /\ \E f \in [{inst.value} -> OptionalStrings] : last' = CallRecord("Optional.FlatMapToString", inst, <<f>>, Optional_FlatMapToString(inst, f))
     /\ UNCHANGED <<inst, goroutineVars>>
  \/ /\ Idle
     /\ inst.type = "Optional"
     /\ \E value \in Values : last' = CallRecord("Optional.OrElse", inst, <<value>>, Returned(Optional_OrElse(inst, value), <<>>))
     /\ UNCHANGED <<inst, goroutineVars>>
  \/ /\ Idle
     /\ inst.type = "Optional"
     /\ \E supplier \in Values : last' = CallRecord("Optional.OrElseGet", inst, <<supplier>>, Optional_OrElseGet(inst, supplier))
     /\ UNCHANGED <<inst, goroutineVars>>
  \/ /\ Idle
     /\ inst.type = "Optional"
     /\ \E f \in Errors : last' = CallRecord("Optional.OrElsePanic", inst, <<f>>, Optional_OrElsePanic(inst, f))
     /\ UNCHANGED <<inst, goroutineVars>>
  \/ /\ Idle
     /\ inst.type = "Optional"
     /\ last' = CallRecord("Optional.Value", inst, <<>>, Returned(Optional_Value(inst), <<>>))
     /\ UNCHANGED <<inst, goroutineVars>>
  \/ /\ Idle
     /\ inst.type = "Optional"
     /\ last' = CallRecord("Optional.String", inst, <<>>, Returned(Optional_String(inst), <<>>))
     /\ UNCHANGED <<inst, goroutineVars>>
  \/ /\ Idle
     /\ inst.type = "Optional"
     /\ last' = CallRecord("Optional.Iter", inst, <<>>, Returned(Optional_Iter(inst), <<>>))
     /\ UNCHANGED <<inst, goroutineVars>>
  \/ /\ Idle
     /\ inst.type = "Optional"
     /\ \E f \in [{inst.value} -> Floats] : last' = CallRecord("Optional.MapToFloat", inst, <<f>>, Optional_MapToFloat(inst, f))
     /\ UNCHANGED <<inst, goroutineVars>>
  \/ /\ Idle
     /\ inst.type = "Optional"
     /\ \E f \in [{inst.value} -> Ints] : last' = CallRecord("Optional.MapToInt", inst, <<f>>, Optional_MapToInt(inst, f))
     /\ UNCHANGED <<inst, goroutineVars>>
  \/ /\ Idle
     /\ inst.type = "Optional"
     /\ \E f \in [{inst.value} -> Strings] : last' = CallRecord("Optional.MapToString", inst, <<f>>, Optional_MapToString(inst, f))
     /\ UNCHANGED <<inst, goroutineVars>>
  \/ /\ Idle
     /\ inst.type = "Optional"
     /\ \E src \in Values :
          /\ inst' = Optional_Scan(inst, src)
          /\ UNCHANGED goroutineVars
          /\ last' = CallRecord("Optional.Scan", inst, <<src>>, Returned(Nil, <<>>))

OptionalIntCall ==
  \/ /\ Idle
     /\ inst.type = "OptionalInt"
     /\ \E opt \in OptionalInts : last' = CallRecord("OptionalInt.Equal", inst, <<opt>>, Returned(OptionalInt_Equal(inst, opt), <<>>))
     /\ UNCHANGED <<inst, goroutineVars>>
  \/ /\ Idle
     /\ inst.type = "OptionalInt"
     /\ \E opt \in OptionalInts : last' = CallRecord("OptionalInt.NotEqual", inst, <<opt>>, Returned(OptionalInt_NotEqual(inst, opt), <<>>))
     /\ UNCHANGED <<inst, goroutineVars>>
  \/ /\ Idle
     /\ inst.type = "OptionalInt"
     /\ \E val \in Ints : last' = CallRecord("OptionalInt.EqualValue", inst, <<val>>, Returned(OptionalInt_EqualValue(inst, val), <<>>))
     /\ UNCHANGED <<inst, goroutineVars>>
  \/ /\ Idle
     /\ inst.type = "OptionalInt"
     /\ \E val \in Ints : last' = CallRecord("OptionalInt.NotEqualValue", inst, <<val>>, Returned(OptionalInt_NotEqualValue(inst, val), <<>>))
     /\ UNCHANGED <<inst, goroutineVars>>
  \/ /\ Idle
     /\ inst.type = "OptionalInt"
     /\ \E predicate \in [{inst.value} -> BOOLEAN] : last' = CallRecord("OptionalInt.Filter", inst, <<predicate>>, OptionalInt_Filter(inst, predicate))
     /\ UNCHANGED <<inst, goroutineVars>>
  \/ /\ Idle
     /\ inst.type = "OptionalInt"
     /\ \E predicate \in [{inst.value} -> BOOLEAN] : last' = CallRecord("OptionalInt.FilterNot", inst, <<predicate>>, OptionalInt_FilterNot(inst, predicate))
     /\ UNCHANGED <<inst, goroutineVars>>
  \/ /\ Idle
     /\ inst.type = "OptionalInt"
     /\ last' = CallRecord("OptionalInt.Get", inst, <<>>, Returned(OptionalInt_Get(inst), <<>>))
     /\ UNCHANGED <<inst, goroutineVars>>
  \/ /\ Idle
     /\ inst.type = "OptionalInt"
     /\ last' = CallRecord("OptionalInt.MustGet", inst, <<>>, OptionalInt_MustGet(inst))
     /\ UNCHANGED <<inst, goroutineVars>>
  \/ /\ Idle
     /\ inst.type = "OptionalInt"
     /\ last' = CallRecord("OptionalInt.IfPresent", inst, <<>>, OptionalInt_IfPresent(inst))
     /\ UNCHANGED <<inst, goroutineVars>>
  \/ /\ Idle
     /\ inst.type = "OptionalInt"
     /\ last' = CallRecord("OptionalInt.IfEmpty", inst, <<>>, OptionalInt_IfEmpty(inst))
     /\ UNCHANGED <<inst, goroutineVars>>
  \/ /\ Idle
     /\ inst.type = "OptionalInt"
     /\ last' = CallRecord("OptionalInt.IfPresentOrElse", inst, <<>>, OptionalInt_IfPresentOrElse(inst))
     /\ UNCHANGED <<inst, goroutineVars>>
  \/ /\ Idle
     /\ inst.type = "OptionalInt"
     /\ last' = CallRecord("OptionalInt.IsEmpty", inst, <<>>, Returned(OptionalInt_IsEmpty(inst), <<>>))
     /\ UNCHANGED <<inst, goroutineVars>>
  \/ /\ Idle
     /\ inst.type = "OptionalInt"
     /\ last' = CallRecord("OptionalInt.IsPresent", inst, <<>>, Returned(OptionalInt_IsPresent(inst), <<>>))
     /\ UNCHANGED <<inst, goroutineVars>>
  \/ /\ Idle
     /\ inst.type = "OptionalInt"
     /\ \E f \in [{inst.value} -> OptionalInts] : last' = CallRecord("OptionalInt.FlatMap", inst, <<f>>, OptionalInt_FlatMap(inst, f))
     /\ UNCHANGED <<inst, goroutineVars>>
  \/ /\ Idle
     /\ inst.type = "OptionalInt"
     /\ \E f \in [{inst.value} -> Ints] : last' = CallRecord("OptionalInt.Map", inst, <<f>>, OptionalInt_Map(inst, f))
     /\ UNCHANGED <<inst, goroutineVars>>
  \/ /\ Idle
     /\ inst.type = "OptionalInt"
     /\ \E f \in [{inst.value} -> Optionals] : last' = CallRecord("OptionalInt.FlatMapTo", inst, <<f>>, OptionalInt_FlatMapTo(inst, f))
     /\ UNCHANGED <<inst, goroutineVars>>
  \/ /\ Idle
     /\ inst.type = "OptionalInt"
     /\ \E f \in [{inst.value} -> Values] : last' = CallRecord("OptionalInt.MapTo", inst, <<f>>, OptionalInt_MapTo(inst, f))
     /\ UNCHANGED <<inst, goroutineVars>>
  \/ /\ Idle
     /\ inst.type = "OptionalInt"
     /\ \E f \in [{inst.value} -> OptionalFloats] : last' = CallRecord("OptionalInt.FlatMapToFloat", inst, <<f>>, OptionalInt_FlatMapToFloat(inst, f))
     /\ UNCHANGED <<inst, goroutineVars>>
  \/ /\ Idle
     /\ inst.type = "OptionalInt"
     /\ \E f \in [{inst.value} -> Floats] : last' = CallRecord("OptionalInt.MapToFloat", inst, <<f>>, OptionalInt_MapToFloat(inst, f))
     /\ UNCHANGED <<inst, goroutineVars>>
  \/ /\ Idle
     /\ inst.type = "OptionalInt"
     /\ \E f \in [{inst.value} -> OptionalStrings] : last' = CallRecord("OptionalInt.FlatMapToString", inst, <<f>>, OptionalInt_FlatMapToString(inst, f))
     /\ UNCHANGED <<inst, goroutineVars>>
  \/ /\ Idle
     /\ inst.type = "OptionalInt"
     /\ \E f \in [{inst.value} -> Strings] : last' = CallRecord("OptionalInt.MapToString", inst, <<f>>, OptionalInt_MapToString(inst, f))
     /\ UNCHANGED <<inst, goroutineVars>>
  \/ /\ Idle
     /\ inst.type = "OptionalInt"
     /\ \E value \in Ints : last' = CallRecord("OptionalInt.OrElse", inst, <<value>>, Returned(OptionalInt_OrElse(inst, value), <<>>))
     /\ UNCHANGED <<inst, goroutineVars>>
  \/ /\ Idle
     /\ inst.type = "OptionalInt"
     /\ \E supplier \in Ints : last' = CallRecord("OptionalInt.OrElseGet", inst, <<supplier>>, OptionalInt_OrElseGet(inst, supplier))
     /\ UNCHANGED <<inst, goroutineVars>>
  \/ /\ Idle
     /\ inst.type = "OptionalInt"
     /\ \E f \in Errors : last' = CallRecord("OptionalInt.OrElsePanic", inst, <<f>>, OptionalInt_OrElsePanic(inst, f))
     /\ UNCHANGED <<inst, goroutineVars>>
  \/ /\ Idle
     /\ inst.type = "OptionalInt"
     /\ last' = CallRecord("OptionalInt.Value", inst, <<>>, Returned(OptionalInt_Value(inst), <<>>))
     /\ UNCHANGED <<inst, goroutineVars>>
  \/ /\ Idle
     /\ inst.type = "OptionalInt"
     /\ last' = CallRecord("OptionalInt.String", inst, <<>>, Returned(OptionalInt_String(inst), <<>>))
     /\ UNCHANGED <<inst, goroutineVars>>
  \/ /\ Idle
     /\ inst.type = "OptionalInt"
     /\ last' = CallRecord("OptionalInt.Iter", inst, <<>>, Returned(OptionalInt_Iter(inst), <<>>))
     /\ UNCHANGED <<inst, goroutineVars>>
  \/ /\ Idle
     /\ inst.type = "OptionalInt"
     /\ \E src \in Values :
          /\ inst' = OptionalInt_Scan(inst, src).o
          /\ UNCHANGED goroutineVars
          /\ last' = CallRecord("OptionalInt.Scan", inst, <<src>>, Returned(OptionalInt_Scan(inst, src).err, <<>>))

OptionalFloatCall ==
  \/ /\ Idle
     /\ inst.type = "OptionalFloat"
     /\ \E opt \in OptionalFloats : last' = CallRecord("OptionalFloat.Equal", inst, <<opt>>, Returned(OptionalFloat_Equal(inst, opt), <<>>))
     /\ UNCHANGED <<inst, goroutineVars>>
  \/ /\ Idle
     /\ inst.type = "OptionalFloat"
     /\ \E opt \in OptionalFloats : last' = CallRecord("OptionalFloat.NotEqual", inst, <<opt>>, Returned(OptionalFloat_NotEqual(inst, opt), <<>>))
     /\ UNCHANGED <<inst, goroutineVars>>
  \/ /\ Idle
     /\ inst.type = "OptionalFloat"
     /\ \E val \in Floats : last' = CallRecord("OptionalFloat.EqualValue", inst, <<val>>, Returned(OptionalFloat_EqualValue(inst, val), <<>>))
     /\ UNCHANGED <<inst, goroutineVars>>
  \/ /\ Idle
     /\ inst.type = "OptionalFloat"
     /\ \E val \in Floats : last' = CallRecord("OptionalFloat.NotEqualValue", inst, <<val>>, Returned(OptionalFloat_NotEqualValue(inst, val), <<>>))
     /\ UNCHANGED <<inst, goroutineVars>>
  \/ /\ Idle
     /\ inst.type = "OptionalFloat"
     /\ \E predicate \in [{inst.value} -> BOOLEAN] : last' = CallRecord("OptionalFloat.Filter", inst, <<predicate>>, OptionalFloat_Filter(inst, predicate))
     /\ UNCHANGED <<inst, goroutineVars>>
  \/ /\ Idle
     /\ inst.type = "OptionalFloat"
     /\ \E predicate \in [{inst.value} -> BOOLEAN] : last' = CallRecord("OptionalFloat.FilterNot", inst, <<predicate>>, OptionalFloat_FilterNot(inst, predicate))
     /\ UNCHANGED <<inst, goroutineVars>>
  \/ /\ Idle
     /\ inst.type = "OptionalFloat"
     /\ last' = CallRecord("OptionalFloat.Get", inst, <<>>, Returned(OptionalFloat_Get(inst), <<>>))
     /\ UNCHANGED <<inst, goroutineVars>>
  \/ /\ Idle
     /\ inst.type = "OptionalFloat"
     /\ last' = CallRecord("OptionalFloat.MustGet", inst, <<>>, OptionalFloat_MustGet(inst))
     /\ UNCHANGED <<inst, goroutineVars>>
  \/ /\ Idle
     /\ inst.type = "OptionalFloat"
     /\ last' = CallRecord("OptionalFloat.IfPresent", inst, <<>>, OptionalFloat_IfPresent(inst))
     /\ UNCHANGED <<inst, goroutineVars>>
  \/ /\ Idle
     /\ inst.type = "OptionalFloat"
     /\ last' = CallRecord("OptionalFloat.IfEmpty", inst, <<>>, OptionalFloat_IfEmpty(inst))
     /\ UNCHANGED <<inst, goroutineVars>>
  \/ /\ Idle
     /\ inst.type = "OptionalFloat"
     /\ last' = CallRecord("OptionalFloat.IfPresentOrElse", inst, <<>>, OptionalFloat_IfPresentOrElse(inst))
     /\ UNCHANGED <<inst, goroutineVars>>
  \/ /\ Idle
     /\ inst.type = "OptionalFloat"
     /\ last' = CallRecord("OptionalFloat.IsEmpty", inst, <<>>, Returned(OptionalFloat_IsEmpty(inst), <<>>))
     /\ UNCHANGED <<inst, goroutineVars>>
  \/ /\ Idle
     /\ inst.type = "OptionalFloat"
     /\ last' = CallRecord("OptionalFloat.IsPresent", inst, <<>>, Returned(OptionalFloat_IsPresent(inst), <<>>))
     /\ UNCHANGED <<inst, goroutineVars>>
  \/ /\ Idle
     /\ inst.type = "OptionalFloat"
     /\ \E f \in [{inst.value} -> OptionalFloats] : last' = CallRecord("OptionalFloat.FlatMap", inst, <<f>>, OptionalFloat_FlatMap(inst, f))
     /\ UNCHANGED <<inst, goroutineVars>>
  \/ /\ Idle
     /\ inst.type = "OptionalFloat"
     /\ \E f \in [{inst.value} -> Floats] : last' = CallRecord("OptionalFloat.Map", inst, <<f>>, OptionalFloat_Map(inst, f))
     /\ UNCHANGED <<inst, goroutineVars>>
  \/ /\ Idle
     /\ inst.type = "OptionalFloat"
     /\ \E f \in [{inst.value} -> Optionals] : last' = CallRecord("OptionalFloat.FlatMapTo", inst, <<f>>, OptionalFloat_FlatMapTo(inst, f))
     /\ UNCHANGED <<inst, goroutineVars>>
  \/ /\ Idle
     /\ inst.type = "OptionalFloat"
     /\ \E f \in [{inst.value} -> Values] : last' = CallRecord("OptionalFloat.MapTo", inst, <<f>>, OptionalFloat_MapTo(inst, f))
     /\ UNCHANGED <<inst, goroutineVars>>
  \/ /\ Idle
     /\ inst.type = "OptionalFloat"
     /\ \E f \in [{inst.value} -> OptionalInts] : last' = CallRecord("OptionalFloat.FlatMapToInt", inst, <<f>>, OptionalFloat_FlatMapToInt(inst, f))
     /\ UNCHANGED <<inst, goroutineVars>>
  \/ /\ Idle
     /\ inst.type = "OptionalFloat"
     /\ \E f \in [{inst.value} -> Ints] : last' = CallRecord("OptionalFloat.MapToInt", inst, <<f>>, OptionalFloat_MapToInt(inst, f))
     /\ UNCHANGED <<inst, goroutineVars>>
  \/ /\ Idle
     /\ inst.type = "OptionalFloat"
     /\ \E f \in [{inst.value} -> OptionalStrings] : last' = CallRecord("OptionalFloat.FlatMapToString", inst, <<f>>, OptionalFloat_FlatMapToString(inst, f))
     /\ UNCHANGED <<inst, goroutineVars>>
  \/ /\ Idle
     /\ inst.type = "OptionalFloat"
     /\ \E f \in [{inst.value} -> Strings] : last' = CallRecord("OptionalFloat.MapToString", inst, <<f>>, OptionalFloat_MapToString(inst, f))
     /\ UNCHANGED <<inst, goroutineVars>>
  \/ /\ Idle
     /\ inst.type = "OptionalFloat"
     /\ \E value \in Floats : last' = CallRecord("OptionalFloat.OrElse", inst, <<value>>, Returned(OptionalFloat_OrElse(inst, value), <<>>))
     /\ UNCHANGED <<inst, goroutineVars>>
  \/ /\ Idle
     /\ inst.type = "OptionalFloat"
     /\ \E supplier \in Floats : last' = CallRecord("OptionalFloat.OrElseGet", inst, <<supplier>>, OptionalFloat_OrElseGet(inst, supplier))
     /\ UNCHANGED <<inst, goroutineVars>>
  \/ /\ Idle
     /\ inst.type = "OptionalFloat"
     /\ \E f \in Errors : last' = CallRecord("OptionalFloat.OrElsePanic", inst, <<f>>, OptionalFloat_OrElsePanic(inst, f))
     /\ UNCHANGED <<inst, goroutineVars>>
  \/ /\ Idle
     /\ inst.type = "OptionalFloat"
     /\ last' = CallRecord("OptionalFloat.Value", inst, <<>>, Returned(OptionalFloat_Value(inst), <<>>))
     /\ UNCHANGED <<inst, goroutineVars>>
  \/ /\ Idle
     /\ inst.type = "OptionalFloat"
     /\ last' = CallRecord("OptionalFloat.String", inst, <<>>, Returned(OptionalFloat_String(inst), <<>>))
     /\ UNCHANGED <<inst, goroutineVars>>
  \/ /\ Idle
     /\ inst.type = "OptionalFloat"
     /\ \E src \in Values :
          /\ inst' = OptionalFloat_Scan(inst, src).o
          /\ UNCHANGED goroutineVars
          /\ last' = CallRecord("OptionalFloat.Scan", inst, <<src>>, Returned(OptionalFloat_Scan(inst, src).err, <<>>))

\* Filter with a pointer receiver, which empties the receiver it filters out
OptionalStringCall_FilterInPlace ==
  /\ Idle
  /\ inst.type = "OptionalString"
  /\ \E predicate \in [{inst.value} -> BOOLEAN] :
       /\ last' = CallRecord("OptionalString.Filter", inst, <<predicate>>, OptionalString_Filter(inst, predicate))
       /\ inst' = OptionalString_Filter(inst, predicate).ret
       /\ UNCHANGED goroutineVars

OptionalStringCall ==
  \/ /\ Idle
     /\ inst.type = "OptionalString"
     /\ \E opt \in OptionalStrings : last' = CallRecord("OptionalString.Equal", inst, <<opt>>, Returned(OptionalString_Equal(inst, opt), <<>>))
     /\ UNCHANGED <<inst, goroutineVars>>
  \/ /\ Idle
     /\ inst.type = "OptionalString"
     /\ \E opt \in OptionalStrings : last' = CallRecord("OptionalString.NotEqual", inst, <<opt>>, Returned(OptionalString_NotEqual(inst, opt), <<>>))
     /\ UNCHANGED <<inst, goroutineVars>>
  \/ /\ Idle
     /\ inst.type = "OptionalString"
     /\ \E val \in Strings : last' = CallRecord("OptionalString.EqualValue", inst, <<val>>, Returned(OptionalString_EqualValue(inst, val), <<>>))
     /\ UNCHANGED <<inst, goroutineVars>>
  \/ /\ Idle
     /\ inst.type = "OptionalString"
     /\ \E val \in Strings : last' = CallRecord("OptionalString.NotEqualValue", inst, <<val>>, Returned(OptionalString_NotEqualValue(inst, val), <<>>))
     /\ UNCHANGED <<inst, goroutineVars>>
  \/ /\ Idle
     /\ inst.type = "OptionalString"
     /\ \E predicate \in [{inst.value} -> BOOLEAN] : last' = CallRecord("OptionalString.Filter", inst, <<predicate>>, OptionalString_Filter(inst, predicate))
     /\ UNCHANGED <<inst, goroutineVars>>
  \/ /\ Idle
     /\ inst.type = "OptionalString"
     /\ \E predicate \in [{inst.value} -> BOOLEAN] : last' = CallRecord("OptionalString.FilterNot", inst, <<predicate>>, OptionalString_FilterNot(inst, predicate))
     /\ UNCHANGED <<inst, goroutineVars>>
  \/ /\ Idle
     /\ inst.type = "OptionalString"
     /\ last' = CallRecord("OptionalString.Get", inst, <<>>, Returned(OptionalString_Get(inst), <<>>))
     /\ UNCHANGED <<inst, goroutineVars>>
  \/ /\ Idle
     /\ inst.type = "OptionalString"
     /\ last' = CallRecord("OptionalString.MustGet", inst, <<>>, OptionalString_MustGet(inst))
     /\ UNCHANGED <<inst, goroutineVars>>
  \/ /\ Idle
     /\ inst.type = "OptionalString"
     /\ last' = CallRecord("OptionalString.IfPresent", inst, <<>>, OptionalString_IfPresent(inst))
     /\ UNCHANGED <<inst, goroutineVars>>
  \/ /\ Idle
     /\ inst.type = "OptionalString"
     /\ last' = CallRecord("OptionalString.IfEmpty", inst, <<>>, OptionalString_IfEmpty(inst))
     /\ UNCHANGED <<inst, goroutineVars>>
  \/ /\ Idle
     /\ inst.type = "OptionalString"
     /\ last' = CallRecord("OptionalString.IfPresentOrElse", inst, <<>>, OptionalString_IfPresentOrElse(inst))
     /\ UNCHANGED <<inst, goroutineVars>>
  \/ /\ Idle
     /\ inst.type = "OptionalString"
     /\ last' = CallRecord("OptionalString.IsEmpty", inst, <<>>, Returned(OptionalString_IsEmpty(inst), <<>>))
     /\ UNCHANGED <<inst, goroutineVars>>
  \/ /\ Idle
     /\ inst.type = "OptionalString"
     /\ last' = CallRecord("OptionalString.IsPresent", inst, <<>>, Returned(OptionalString_IsPresent(inst), <<>>))
     /\ UNCHANGED <<inst, goroutineVars>>
  \/ /\ Idle
     /\ inst.type = "OptionalString"
     /\ \E f \in [{inst.value} -> OptionalStrings] : last' = CallRecord("OptionalString.FlatMap", inst, <<f>>, OptionalString_FlatMap(inst, f))
     /\ UNCHANGED <<inst, goroutineVars>>
  \/ /\ Idle
     /\ inst.type = "OptionalString"
     /\ \E f \in [{inst.value} -> Strings] : last' = CallRecord("OptionalString.Map", inst, <<f>>, OptionalString_Map(inst, f))
     /\ UNCHANGED <<inst, goroutineVars>>
  \/ /\ Idle
     /\ inst.type = "OptionalString"
     /\ \E f \in [{inst.value} -> Optionals] : last' = CallRecord("OptionalString.FlatMapTo", inst, <<f>>, OptionalString_FlatMapTo(inst, f))
     /\ UNCHANGED <<inst, goroutineVars>>
  \/ /\ Idle
     /\ inst.type = "OptionalString"
     /\ \E f \in [{inst.value} -> Values] : last' = CallRecord("OptionalString.MapTo", inst, <<f>>, OptionalString_MapTo(inst, f))
     /\ UNCHANGED <<inst, goroutineVars>>
  \/ /\ Idle
     /\ inst.type = "OptionalString"
     /\ \E f \in [{inst.value} -> OptionalFloats] : last' = CallRecord("OptionalString.FlatMapToFloat", inst, <<f>>, OptionalString_FlatMapToFloat(inst, f))
     /\ UNCHANGED <<inst, goroutineVars>>
  \/ /\ Idle
     /\ inst.type = "OptionalString"
     /\ \E f \in [{inst.value} -> Floats] : last' = CallRecord("OptionalString.MapToFloat", inst, <<f>>, OptionalString_MapToFloat(inst, f))
     /\ UNCHANGED <<inst, goroutineVars>>
  \/ /\ Idle
     /\ inst.type = "OptionalString"
     /\ \E f \in [{inst.value} -> OptionalInts] : last' = CallRecord("OptionalString.FlatMapToInt", inst, <<f>>, OptionalString_FlatMapToInt(inst, f))
     /\ UNCHANGED <<inst, goroutineVars>>
  \/ /\ Idle
     /\ inst.type = "OptionalString"
     /\ \E f \in [{inst.value} -> Ints] : last' = CallRecord("OptionalString.MapToInt", inst, <<f>>, OptionalString_MapToInt(inst, f))
     /\ UNCHANGED <<inst, goroutineVars>>
  \/ /\ Idle
     /\ inst.type = "OptionalString"
     /\ \E value \in Strings : last' = CallRecord("OptionalString.OrElse", inst, <<value>>, Returned(OptionalString_OrElse(inst, value), <<>>))
     /\ UNCHANGED <<inst, goroutineVars>>
  \/ /\ Idle
     /\ inst.type = "OptionalString"
     /\ \E supplier \in Strings : last' = CallRecord("OptionalString.OrElseGet", inst, <<supplier>>, OptionalString_OrElseGet(inst, supplier))
     /\ UNCHANGED <<inst, goroutineVars>>
  \/ /\ Idle
     /\ inst.type = "OptionalString"
     /\ \E f \in Errors : last' = CallRecord("OptionalString.OrElsePanic", inst, <<f>>, OptionalString_OrElsePanic(inst, f))
     /\ UNCHANGED <<inst, goroutineVars>>
  \/ /\ Idle
     /\ inst.type = "OptionalString"
     /\ last' = CallRecord("OptionalString.Value", inst, <<>>, Returned(OptionalString_Value(inst), <<>>))
     /\ UNCHANGED <<inst, goroutineVars>>
  \/ /\ Idle
     /\ inst.type = "OptionalString"
     /\ last' = CallRecord("OptionalString.String", inst, <<>>, Returned(OptionalString_String(inst), <<>>))
     /\ UNCHANGED <<inst, goroutineVars>>
  \/ /\ Idle
     /\ inst.type = "OptionalString"
     /\ last' = CallRecord("OptionalString.Iter", inst, <<>>, Returned(OptionalString_Iter(inst), <<>>))
     /\ UNCHANGED <<inst, goroutineVars>>
  \/ /\ Idle
     /\ inst.type = "OptionalString"
     /\ \E src \in Values :
          /\ inst' = OptionalString_Scan(inst, src).o
          /\ UNCHANGED goroutineVars
          /\ last' = CallRecord("OptionalString.Scan", inst, <<src>>, Returned(OptionalString_Scan(inst, src).err, <<>>))

\* the call has returned or its panic was recovered: the client goes on to its next statement
Resume ==
  /\ ~Idle
  /\ last' = NoCall
  /\ UNCHANGED <<inst, goroutineVars>>

Next == Construct \/ Resume \/ OptionalCall \/ OptionalIntCall \/ OptionalFloatCall \/ OptionalStringCall

Spec == Init /\ [][Next]_vars

(***************************************************************************)
(* Optional.Scan called from two goroutines on one shared Optional.  Scan  *)
(* is two assignments, o.value = src and o.present = src != nil, and the   *)
(* first one stores an interface value of two words (its dynamic type and  *)
(* its data): nothing makes the three stores one step.  The callers either *)
(* hold a mutex around each call (serialised) or do not; a reader copies   *)
(* the instance, under the same mutex when the callers use one.            *)
(***************************************************************************)
\* the values the goroutines scan
ScanInputs == {Nil, BoxInt(1), BoxString("a")}

InitConc ==
  /\ inst = EmptyOptional
  /\ last = NoCall
  /\ NoScanRunning
  /\ serialised \in BOOLEAN

\* goroutine g calls o.Scan(src), after taking the mutex when the callers use it
Call(g) ==
  /\ pc[g] = "idle"
  /\ serialised => mu = 0
  /\ \E src \in ScanInputs : scanning' = [scanning EXCEPT ![g] = src]
  /\ pc' = [pc EXCEPT ![g] = "type"]
  /\ mu' = IF serialised THEN g ELSE mu
  /\ UNCHANGED <<inst, last, serialised, done, seen>>

\* o.value = src: the word that holds the dynamic type
WriteType(g) ==
  /\ pc[g] = "type"
  /\ inst' = [inst EXCEPT !.value.k = Optional_Scan(inst, scanning[g]).value.k]
  /\ pc' = [pc EXCEPT ![g] = "data"]
  /\ UNCHANGED <<last, scanning, mu, serialised, done, seen>>

\* o.value = src: the word that holds the data
WriteData(g) ==
  /\ pc[g] = "data"
  /\ inst' = [inst EXCEPT !.value.n = Optional_Scan(inst, scanning[g]).value.n,
                          !.value.s = Optional_Scan(inst, scanning[g]).value.s]
  /\ pc' = [pc EXCEPT ![g] = "present"]
  /\ UNCHANGED <<last, scanning, mu, serialised, done, seen>>

\* o.present = src != nil; return nil, and the caller releases the mutex it took
WritePresent(g) ==
  /\ pc[g] = "present"
  /\ inst' = [inst EXCEPT !.present = Optional_Scan(inst, scanning[g]).present]
  /\ pc' = [pc EXCEPT ![g] = "idle"]
  /\ done' = scanning[g]
  /\ mu' = IF serialised THEN 0 ELSE mu
  /\ UNCHANGED <<last, scanning, serialised, seen>>

\* a reader copies the instance (a call of a method with a value receiver)
Observe ==
  /\ serialised => mu = 0
  /\ seen' = inst
  /\ UNCHANGED <<inst, last, pc, scanning, mu, serialised, done>>

NextConc ==
  \/ \E g \in Goroutines : Call(g)
  \/ \E g \in Goroutines : WriteType(g)
  \/ \E g \in Goroutines : WriteData(g)
  \/ \E g \in Goroutines : WritePresent(g)
  \/ Observe

SpecConc == InitConc /\ [][NextConc]_vars

(***************************************************************************)
(* The claims.  Each is a property of the call recorded in last.           *)
(***************************************************************************)
\* a nil pointer, channel, map, function or slice wrapped in an interface
IsWrappedNil(v) == v.k \in PtrKinds /\ v.n = 0

\* the present instance of a variant holding v
PresentOf(empty, v) == [empty EXCEPT !.value = v, !.present = TRUE]

\* C1: Of() returns an empty Optional; Of(v) returns an empty Optional when v is nil or
\* a wrapped nil pointer, channel, map, function or slice, and otherwise a present
\* Optional holding exactly v (so 0 and "" are present); the client holds what Of returned.
C1_OfEmptyOrPresent ==
  last.op = "Of" =>
    /\ inst = last.ret
    /\ IF Len(last.args) = 0 THEN last.ret = EmptyOptional
       ELSE LET v == last.args[1] IN
            IF v = Nil \/ IsWrappedNil(v) THEN last.ret = EmptyOptional
            ELSE /\ last.ret = PresentOf(EmptyOptional, v)
                 /\ Optional_IsPresent(last.ret)
                 /\ ~Optional_IsEmpty(last.ret)

\* C1 happens: Of(0) with the zero value 0 gave a present Optional
C1_Witness ==
  /\ last.op = "Of"
  /\ Len(last.args) = 1
  /\ last.args[1] = BoxInt(0)
  /\ last.ret.present

\* C2: OfInt, OfFloat and OfString return an empty instance without argument and, with
\* an argument, a present instance holding it, also when it is the zero value.
C2_TypedOf ==
  /\ last.op = "OfInt" =>
       /\ inst = last.ret
       /\ IF Len(last.args) = 0 THEN last.ret = EmptyOptionalInt
          ELSE last.ret = PresentOf(EmptyOptionalInt, last.args[1])
  /\ last.op = "OfFloat" =>
       /\ inst = last.ret
       /\ IF Len(last.args) = 0 THEN last.ret = EmptyOptionalFloat
          ELSE last.ret = PresentOf(EmptyOptionalFloat, last.args[1])
  /\ last.op = "OfString" =>
       /\ inst = last.ret
       /\ IF Len(last.args) = 0 THEN last.ret = EmptyOptionalString
          ELSE last.ret = PresentOf(EmptyOptionalString, last.args[1])

\* C2 happens: OfInt(0) gave a present OptionalInt holding 0
C2_Witness ==
  /\ last.op = "OfInt"
  /\ Len(last.args) = 1
  /\ last.args[1] = 0
  /\ last.ret.present
  /\ last.ret.value = 0

MustGetOps == {"Optional.MustGet", "OptionalInt.MustGet", "OptionalFloat.MustGet", "OptionalString.MustGet"}

\* C3: in the four variants MustGet returns the contained value of a present instance
\* and, on an absent one, panics with the one errNotPresent and returns nothing.
C3_MustGet ==
  last.op \in MustGetOps =>
    IF last.recv.present
    THEN ~last.panicked /\ last.ret = last.recv.value
    ELSE last.panicked /\ last.panicVal = errNotPresent /\ last.ret = NoValue

\* C3 happens: MustGet on an absent Optional panicked
C3_Witness ==
  /\ last.op = "Optional.MustGet"
  /\ ~last.recv.present
  /\ last.panicked

\* C4: Equal is true exactly when both instances are absent or both are present with
\* equal values (reflect.DeepEqual for Optional, == for the typed variants), and NotEqual
\* is its negation.
C4_EqualNotEqual ==
  LET o == last.recv
      opt == last.args[1]
      both(eq) == (~o.present /\ ~opt.present) \/ (o.present /\ opt.present /\ eq)
  IN /\ last.op = "Optional.Equal" => (last.ret <=> both(DeepEqual(o.value, opt.value)))
     /\ last.op = "OptionalInt.Equal" => (last.ret <=> both(o.value = opt.value))
     /\ last.op = "OptionalFloat.Equal" => (last.ret <=> both(FloatEq(o.value, opt.value)))
     /\ last.op = "OptionalString.Equal" => (last.ret <=> both(o.value = opt.value))
     /\ last.op = "Optional.NotEqual" => (last.ret <=> ~Optional_Equal(o, opt))
     /\ last.op = "OptionalInt.NotEqual" => (last.ret <=> ~OptionalInt_Equal(o, opt))
     /\ last.op = "OptionalFloat.NotEqual" => (last.ret <=> ~OptionalFloat_Equal(o, opt))
     /\ last.op = "OptionalString.NotEqual" => (last.ret <=> ~OptionalString_Equal(o, opt))

\* C4 happens: Equal was true of two present Optionals holding different pointers to
\* equal contents
C4_Witness ==
  /\ last.op = "Optional.Equal"
  /\ last.recv.present
  /\ last.args[1].present
  /\ last.recv.value # last.args[1].value
  /\ last.ret

\* C5: EqualValue(x) is true exactly when the instance is present and its value equals
\* x; an absent instance gives false for every x, nil too; NotEqualValue is the negation.
C5_EqualValue ==
  LET o == last.recv
      x == last.args[1]
  IN /\ last.op = "Optional.EqualValue" => (last.ret <=> (o.present /\ DeepEqual(o.value, x)))
     /\ last.op = "OptionalInt.EqualValue" => (last.ret <=> (o.present /\ o.value = x))
     /\ last.op = "OptionalFloat.EqualValue" => (last.ret <=> (o.present /\ FloatEq(o.value, x)))
     /\ last.op = "OptionalString.EqualValue" => (last.ret <=> (o.present /\ o.value = x))
     /\ last.op = "Optional.NotEqualValue" => (last.ret <=> ~Optional_EqualValue(o, x))
     /\ last.op = "OptionalInt.NotEqualValue" => (last.ret <=> ~OptionalInt_EqualValue(o, x))
     /\ last.op = "OptionalFloat.NotEqualValue" => (last.ret <=> ~OptionalFloat_EqualValue(o, x))
     /\ last.op = "OptionalString.NotEqualValue" => (last.ret <=> ~OptionalString_EqualValue(o, x))

\* C5 happens: an absent Optional was compared with nil and EqualValue was false
C5_Witness ==
  /\ last.op = "Optional.EqualValue"
  /\ ~last.recv.present
  /\ last.args[1] = Nil
  /\ ~last.ret

\* the variant of the method a call names, and the variant's empty instance
VariantOf(op) ==
  CASE op \in {"Optional.Filter", "Optional.FilterNot", "Optional.FlatMap", "OptionalInt.FlatMapTo",
               "OptionalFloat.FlatMapTo", "OptionalString.FlatMapTo"} -> EmptyOptional
    [] op \in {"OptionalInt.Filter", "OptionalInt.FilterNot", "OptionalInt.FlatMap", "Optional.FlatMapToInt",
               "OptionalFloat.FlatMapToInt", "OptionalString.FlatMapToInt"} -> EmptyOptionalInt
    [] op \in {"OptionalFloat.Filter", "OptionalFloat.FilterNot", "OptionalFloat.FlatMap", "Optional.FlatMapToFloat",
               "OptionalInt.FlatMapToFloat", "OptionalString.FlatMapToFloat"} -> EmptyOptionalFloat
    [] op \in {"OptionalString.Filter", "OptionalString.FilterNot", "OptionalString.FlatMap",
               "Optional.FlatMapToString", "OptionalInt.FlatMapToString", "OptionalFloat.FlatMapToString"}
         -> EmptyOptionalString

FilterOps == {"Optional.Filter", "OptionalInt.Filter", "OptionalFloat.Filter", "OptionalString.Filter"}

FilterNotOps == {"Optional.FilterNot", "OptionalInt.FilterNot", "OptionalFloat.FilterNot", "OptionalString.FilterNot"}

\* C6: Filter(p) is the instance itself, value and flag, when it is present and p(value)
\* is true, and the empty instance otherwise; FilterNot(p) is the instance itself when it
\* is present and p(value) is false, and the empty instance otherwise.
C6_Filter ==
  LET o == last.recv
      p == last.args[1]
  IN /\ last.op \in FilterOps =>
          /\ ~last.panicked
          /\ last.ret = IF o.present /\ p[o.value] THEN o ELSE VariantOf(last.op)
     /\ last.op \in FilterNotOps =>
          /\ ~last.panicked
          /\ last.ret = IF o.present /\ ~p[o.value] THEN o ELSE VariantOf(last.op)

\* C6 happens: Filter with a true predicate, on a present Optional holding a nil pointer
\* that Scan stored, returned that Optional
C6_Witness ==
  /\ last.op = "Optional.Filter"
  /\ last.recv.present
  /\ IsWrappedNil(last.recv.value)
  /\ last.args[1][last.recv.value]
  /\ last.ret = last.recv

\* C7: Map(f) of an absent Optional is empty; of a present one it is empty when f returns
\* nil, empty when f returns a zero value and the flag is passed as true, and otherwise
\* a present Optional holding f(value).
C7_Map ==
  last.op = "Optional.Map" =>
    LET o == last.recv
        r == last.args[1][o.value]
        flag == last.args[2]
    IN /\ ~last.panicked
       /\ last.ret =
            IF ~o.present THEN EmptyOptional
            ELSE IF r = Nil \/ IsWrappedNil(r) THEN EmptyOptional
            ELSE IF Len(flag) > 0 /\ flag[1] /\ IsZero(r) THEN EmptyOptional
            ELSE PresentOf(EmptyOptional, r)

\* C7 happens: without the flag, a mapping function that returned 0 gave a present Optional
C7_Witness ==
  /\ last.op = "Optional.Map"
  /\ last.recv.present
  /\ last.args[1][last.recv.value] = BoxInt(0)
  /\ Len(last.args[2]) = 0
  /\ last.ret = PresentOf(EmptyOptional, BoxInt(0))

FlatMapOps ==
  {"Optional.FlatMap", "Optional.FlatMapToFloat", "Optional.FlatMapToInt", "Optional.FlatMapToString",
   "OptionalInt.FlatMap", "OptionalInt.FlatMapTo", "OptionalInt.FlatMapToFloat", "OptionalInt.FlatMapToString",
   "OptionalFloat.FlatMap", "OptionalFloat.FlatMapTo", "OptionalFloat.FlatMapToInt", "OptionalFloat.FlatMapToString",
   "OptionalString.FlatMap", "OptionalString.FlatMapTo", "OptionalString.FlatMapToFloat",
   "OptionalString.FlatMapToInt"}

\* C8: FlatMap and every FlatMapTo return the optional f(value) gave, as it is, when the
\* receiver is present, and the empty optional of the target variant when it is absent.
C8_FlatMap ==
  last.op \in FlatMapOps =>
    /\ ~last.panicked
    /\ last.ret = IF last.recv.present THEN last.args[1][last.recv.value] ELSE VariantOf(last.op)

\* C8 happens: f returned a present Optional holding a nil pointer, which Of would make
\* empty, and FlatMap returned it as it is
C8_Witness ==
  /\ last.op = "Optional.FlatMap"
  /\ last.recv.present
  /\ last.ret.present
  /\ IsWrappedNil(last.ret.value)
  /\ last.ret = last.args[1][last.recv.value]

OrElseOps == {"Optional.OrElse", "OptionalInt.OrElse", "OptionalFloat.OrElse", "OptionalString.OrElse"}

OrElseGetOps == {"Optional.OrElseGet", "OptionalInt.OrElseGet", "OptionalFloat.OrElseGet", "OptionalString.OrElseGet"}

OrElsePanicOps ==
  {"Optional.OrElsePanic", "OptionalInt.OrElsePanic", "OptionalFloat.OrElsePanic", "OptionalString.OrElsePanic"}

\* C9: OrElse(d), OrElseGet(s) and OrElsePanic(f) return the contained value of a present
\* instance; on an absent one OrElse returns d, OrElseGet returns s() and OrElsePanic
\* panics with the very value f() gave.
C9_OrElse ==
  last.op \in OrElseOps \cup OrElseGetOps \cup OrElsePanicOps =>
    IF last.recv.present THEN ~last.panicked /\ last.ret = last.recv.value
    ELSE IF last.op \in OrElsePanicOps
         THEN last.panicked /\ last.panicVal = last.args[1] /\ last.ret = NoValue
         ELSE ~last.panicked /\ last.ret = last.args[1]

\* C9 happens: OrElsePanic on an absent Optional panicked with the caller's error, one
\* with the text of errNotPresent that is not errNotPresent
C9_Witness ==
  /\ last.op = "Optional.OrElsePanic"
  /\ ~last.recv.present
  /\ last.panicked
  /\ last.panicVal = last.args[1]
  /\ last.panicVal # errNotPresent
  /\ last.panicVal.s = errNotPresent.s

IfPresentOps == {"Optional.IfPresent", "OptionalInt.IfPresent", "OptionalFloat.IfPresent", "OptionalString.IfPresent"}

IfEmptyOps == {"Optional.IfEmpty", "OptionalInt.IfEmpty", "OptionalFloat.IfEmpty", "OptionalString.IfEmpty"}

IfPresentOrElseOps ==
  {"Optional.IfPresentOrElse", "OptionalInt.IfPresentOrElse", "OptionalFloat.IfPresentOrElse",
   "OptionalString.IfPresentOrElse"}

\* the invocations of the function passed as fn that the call made
InvocationsOf(fn) == SelectSeq(last.calls, LAMBDA c : c.fn = fn)

\* C10: IfPresent invokes the consumer, with the contained value, exactly when the
\* instance is present; IfEmpty invokes the function exactly when it is absent;
\* IfPresentOrElse invokes exactly one of the two, the consumer when present.
C10_IfPresentIfEmpty ==
  LET o == last.recv
      consumed == <<Invoked("consumer", o.value, NoValue)>>
  IN /\ last.op \in IfPresentOps =>
          /\ ~last.panicked
          /\ last.calls = IF o.present THEN consumed ELSE <<>>
     /\ last.op \in IfEmptyOps =>
          /\ ~last.panicked
          /\ Len(last.calls) = (IF o.present THEN 0 ELSE 1)
          /\ InvocationsOf("f") = last.calls
     /\ last.op \in IfPresentOrElseOps =>
          /\ ~last.panicked
          /\ Len(last.calls) = 1
          /\ InvocationsOf("consumer") = (IF o.present THEN consumed ELSE <<>>)
          /\ Len(InvocationsOf("f")) = (IF o.present THEN 0 ELSE 1)

\* C10 happens: IfPresentOrElse on an absent OptionalString invoked the function alone
C10_Witness ==
  /\ last.op = "OptionalString.IfPresentOrElse"
  /\ ~last.recv.present
  /\ Len(last.calls) = 1
  /\ last.calls[1].fn = "f"

(***************************************************************************)
(* Scan and Value.                                                         *)
(***************************************************************************)
ScanOps == {"Optional.Scan", "OptionalInt.Scan", "OptionalFloat.Scan", "OptionalString.Scan"}

TypedScanOps == ScanOps \ {"Optional.Scan"}

\* C11: the generic Scan returns a nil error and overwrites the receiver: the
\* instance is then present holding exactly src when src is not nil, and absent
\* when src is nil, whatever the receiver held before the call.
C11_GenericScan ==
  last.op = "Optional.Scan" =>
    /\ ~last.panicked
    /\ last.ret = Nil
    /\ inst.type = "Optional"
    /\ inst.present = (last.args[1] # Nil)
    /\ inst.value = last.args[1]

\* a present instance was scanned to absent, and an instance was scanned to hold a new value
C11_Witness ==
  /\ last.op = "Optional.Scan"
  /\ last.recv.present
  /\ \/ last.args[1] = Nil /\ ~inst.present
     \/ last.args[1] # Nil /\ last.args[1] # last.recv.value /\ inst.present

\* the zero value of a typed variant's value field
ZeroOf(type) ==
  CASE type = "Optional" -> Nil
    [] type = "OptionalInt" -> 0
    [] type = "OptionalFloat" -> F(0)
    [] type = "OptionalString" -> ""

\* value is what the non-nil src comes to in the type of the variant: the same
\* float64, or else the number or the text that src is written as
CoercedFrom(type, value, src) ==
  CASE type = "OptionalString" -> value = asString(src)
    [] type = "OptionalInt" -> FormatDec(value) = asString(src)
    [] type = "OptionalFloat" ->
         IF src.k = "float64" THEN BoxFloat(value) = src
         ELSE IF value.nan THEN asString(src) = "NaN"
         ELSE FormatDec(value.v) = asString(src)

\* C12: a typed Scan whose coercion succeeds leaves the instance present with
\* the coerced value; a nil input succeeds and leaves it present with the zero
\* value of the type (the generic Scan leaves it absent).
C12_TypedScanSucceeds ==
  /\ (last.op \in TypedScanOps /\ last.args[1] = Nil) =>
       /\ last.ret = Nil
       /\ inst.present
       /\ inst.value = ZeroOf(inst.type)
  /\ (last.op \in TypedScanOps /\ last.args[1] # Nil /\ last.ret = Nil) =>
       /\ inst.present
       /\ CoercedFrom(inst.type, inst.value, last.args[1])
  /\ (last.op = "Optional.Scan" /\ last.args[1] = Nil) => ~inst.present

\* nil was scanned into an empty OptionalInt, which is now present with 0
C12_Witness ==
  /\ last.op = "OptionalInt.Scan"
  /\ last.args[1] = Nil
  /\ ~last.recv.present
  /\ inst.present
  /\ inst.value = 0

\* the inputs a typed variant cannot take: a pointer, slice, channel, function,
\* map or error for all three, and for the numeric ones a text that is not a
\* number (for OptionalInt, NaN is not a number either)
Uncoercible(type, src) ==
  \/ src.k \in PtrKinds \cup {"error"}
  \/ type # "OptionalString" /\ src.k = "string" /\ src.s \in {"", "a", "0x0"}
  \/ type = "OptionalInt" /\ src.k = "float64" /\ src.s = "NaN"

\* C13: a typed Scan that cannot coerce its input returns a non-nil error and
\* leaves value and present of the receiver as they were before the call.
C13_TypedScanFails ==
  last.op \in TypedScanOps =>
    /\ ~last.panicked
    /\ Uncoercible(inst.type, last.args[1]) <=> last.ret # Nil
    /\ last.ret # Nil => (last.ret.k = "error" /\ inst = last.recv)

\* a present OptionalFloat holding 1.0 refused a text and still holds 1.0
C13_Witness ==
  /\ last.op = "OptionalFloat.Scan"
  /\ last.args[1] = BoxString("a")
  /\ last.ret # Nil
  /\ last.recv.present
  /\ inst.present
  /\ inst.value = F(1)

\* the receivers a Scan method can be called on
ReceiversOf(op) ==
  CASE op = "Optional.Scan" -> Optionals
    [] op = "OptionalInt.Scan" -> OptionalInts
    [] op = "OptionalFloat.Scan" -> OptionalFloats
    [] op = "OptionalString.Scan" -> OptionalStrings

\* the receiver after o.Scan(src)
AfterScan(op, o, src) ==
  CASE op = "Optional.Scan" -> Optional_Scan(o, src)
    [] op = "OptionalInt.Scan" -> OptionalInt_Scan(o, src).o
    [] op = "OptionalFloat.Scan" -> OptionalFloat_Scan(o, src).o
    [] op = "OptionalString.Scan" -> OptionalString_Scan(o, src).o

\* C14 as stated: in every variant the receiver after Scan(src) is the same
\* whatever the receiver was before the call.
C14_ScanDependsOnSrcAlone ==
  last.op \in ScanOps =>
    \A o \in ReceiversOf(last.op) : AfterScan(last.op, o, last.args[1]) = inst

\* C14, amended: in every variant the receiver after a Scan(src) that returns a
\* nil error is the same whatever the receiver was before the call.
C14_AcceptedScanDependsOnSrcAlone ==
  (last.op \in ScanOps /\ last.ret = Nil) =>
    \A o \in ReceiversOf(last.op) : AfterScan(last.op, o, last.args[1]) = inst

\* a present OptionalString holding "a" took the int 1 and holds "1", as an empty one would
C14_Witness ==
  /\ last.op = "OptionalString.Scan"
  /\ last.recv.present
  /\ last.recv.value = "a"
  /\ last.args[1] = BoxInt(1)
  /\ last.ret = Nil
  /\ inst.value = "1"
  /\ inst = OptionalString_Scan(EmptyOptionalString, BoxInt(1)).o

ValueOps == {"Optional.Value", "OptionalInt.Value", "OptionalFloat.Value", "OptionalString.Value"}

\* the value an instance contains, as a value of type interface{}
Contained(o) ==
  CASE o.type = "Optional" -> o.value
    [] o.type = "OptionalInt" -> BoxInt(o.value)
    [] o.type = "OptionalFloat" -> BoxFloat(o.value)
    [] o.type = "OptionalString" -> BoxString(o.value)

\* C15: in every variant Value() never returns an error: it returns the
\* contained value and nil when the instance is present, nil and nil when it is
\* absent, and it does not change the instance.
C15_Value ==
  last.op \in ValueOps =>
    /\ ~last.panicked
    /\ last.ret[2] = Nil
    /\ last.ret[1] = (IF last.recv.present THEN Contained(last.recv) ELSE Nil)
    /\ inst = last.recv

\* Value() of an absent OptionalInt gave (nil, nil)
C15_Witness ==
  /\ last.op = "OptionalInt.Value"
  /\ ~last.recv.present
  /\ last.ret = <<Nil, Nil>>

\* what o.Value() returns
ValueOf(o) ==
  CASE o.type = "Optional" -> Optional_Value(o)
    [] o.type = "OptionalInt" -> OptionalInt_Value(o)
    [] o.type = "OptionalFloat" -> OptionalFloat_Value(o)
    [] o.type = "OptionalString" -> OptionalString_Value(o)

\* two raw values are equivalent when both are nil, or neither is and they are
\* written the same way (the int 1, the float64 1.0 and the text "1" are)
Equivalent(v, w) ==
  IF v = Nil \/ w = Nil THEN v = w
  ELSE asString(v) = asString(w)

\* C16 as stated: in every variant, for every v that Scan accepts, nil
\* included, Scan(v) followed by Value() returns a value equivalent to v and a
\* nil error.
C16_RoundTrip ==
  (last.op \in ScanOps /\ last.ret = Nil) =>
    /\ Equivalent(last.args[1], ValueOf(inst)[1])
    /\ ValueOf(inst)[2] = Nil

\* C16, amended: in every variant, for every non-nil v that Scan accepts,
\* Scan(v) followed by Value() returns a value equivalent to v and a nil error;
\* after Scan(nil), Value() returns nil in the generic variant and the zero
\* value of the type in the typed ones, with a nil error.
C16_RoundTripOfNonNil ==
  (last.op \in ScanOps /\ last.ret = Nil) =>
    /\ ValueOf(inst)[2] = Nil
    /\ last.args[1] # Nil => Equivalent(last.args[1], ValueOf(inst)[1])
    /\ last.args[1] = Nil =>
         ValueOf(inst)[1] = (IF inst.type = "Optional" THEN Nil
                             ELSE Contained([inst EXCEPT !.value = ZeroOf(inst.type)]))

\* the text "1" was scanned into an OptionalInt, whose Value() is the int 1
C16_Witness ==
  /\ last.op = "OptionalInt.Scan"
  /\ last.args[1] = BoxString("1")
  /\ last.ret = Nil
  /\ ValueOf(inst) = <<BoxInt(1), Nil>>

(***************************************************************************)
(* The frame of the operations and the life of an instance.                *)
(***************************************************************************)
ConstructorOps == {"Of", "OfInt", "OfFloat", "OfString"}

\* C17: Scan is the only operation that modifies an instance: after a call of
\* any other method of any variant the value and present fields of the receiver
\* are what they were before the call, also when the method returned an
\* instance that differs from the receiver.
C17_OnlyScanModifies ==
  last.op \notin ScanOps \cup ConstructorOps \cup {"none"} => inst = last.recv

\* Filter of a present OptionalString returned the empty instance, and the receiver is still present
C17_Witness ==
  /\ last.op = "OptionalString.Filter"
  /\ last.recv.present
  /\ ~last.ret.present
  /\ inst.present
  /\ inst = last.recv

MapOps ==
  {"Optional.Map", "OptionalInt.Map", "OptionalFloat.Map", "OptionalString.Map",
   "OptionalInt.MapTo", "OptionalFloat.MapTo", "OptionalString.MapTo",
   "OptionalInt.MapToFloat", "OptionalInt.MapToString", "OptionalFloat.MapToInt",
   "OptionalFloat.MapToString", "OptionalString.MapToFloat", "OptionalString.MapToInt"}

\* the operations that return an instance
InstanceOps == ConstructorOps \cup FilterOps \cup FilterNotOps \cup MapOps \cup FlatMapOps

AbsentHoldsZero(o) == ~o.present => o.value = ZeroOf(o.type)

\* C18: in every reachable state, in every variant, an instance that is not
\* present holds the zero value of its type (nil, 0, 0.0 or ""): the instance
\* the client holds, after constructors and Scans that succeed or fail, and
\* every instance an operation returns.
C18_AbsentHoldsZero ==
  /\ AbsentHoldsZero(inst)
  /\ (last.op \in InstanceOps /\ ~last.panicked) => AbsentHoldsZero(last.ret)

\* a present Optional was scanned with nil and is the empty Optional again
C18_Witness ==
  /\ last.op = "Optional.Scan"
  /\ last.recv.present
  /\ last.args[1] = Nil
  /\ ~inst.present
  /\ inst = EmptyOptional

\* C19 as stated: over the life of an instance the present flag goes from false
\* to true only at construction, and only Scan takes an existing instance from
\* present to absent.  A constructor step gives the client a new instance.
C19_PresentOnlyAtConstruction ==
  [][last'.op \notin ConstructorOps =>
       /\ ~(~inst.present /\ inst'.present)
       /\ (inst.present /\ ~inst'.present) => last'.op \in ScanOps]_vars

\* C19, amended: over the life of an instance the present flag goes from false
\* to true only at construction or in Scan, and only Scan takes an existing
\* instance from present to absent.
C19_PresenceChangesOnlyInScan ==
  [][last'.op \notin ConstructorOps =>
       ((inst.present # inst'.present) => last'.op \in ScanOps)]_vars

\* an empty OptionalInt became present by Scan
C19_Witness ==
  /\ last.op = "OptionalInt.Scan"
  /\ ~last.recv.present
  /\ last.ret = Nil
  /\ inst.present

\* C20: every operation other than MustGet, OrElsePanic and the typed Scan
\* returns normally for every receiver and every argument, the caller's
\* functions returning normally: also the generic Map and the typed MapTo when
\* the mapper returns nil or a zero value.
C20_Total ==
  last.op \notin MustGetOps \cup OrElsePanicOps \cup TypedScanOps \cup {"none"} => ~last.panicked

(***************************************************************************)
(* The mappings to another type.                                           *)
(***************************************************************************)
TypedMapToOps == {"OptionalInt.MapTo", "OptionalFloat.MapTo", "OptionalString.MapTo"}

\* Map, MapToInt, MapToFloat and MapToString of the typed variants
TypedMapOps ==
  {"OptionalInt.Map", "OptionalInt.MapToFloat", "OptionalInt.MapToString",
   "OptionalFloat.Map", "OptionalFloat.MapToInt", "OptionalFloat.MapToString",
   "OptionalString.Map", "OptionalString.MapToFloat", "OptionalString.MapToInt"}

\* a zero value of type interface{}: the nil interface, or a value that
\* reflect.Value.IsZero reports as zero
IsZeroValue(v) == IF v = Nil THEN TRUE ELSE IsZero(v)

\* what the mapper of the call gives on the value of the receiver
Mapped == last.args[1][last.recv.value]

\* C21: MapTo(f) of a typed variant returns the empty Optional when the
\* receiver is absent or f(value) is a zero value, and a present Optional
\* holding f(value) otherwise; Map, MapToInt, MapToFloat and MapToString of a
\* present typed receiver return a present result holding f(value), also when
\* it is the zero value.
C21_TypedMapTo ==
  /\ last.op \in TypedMapToOps =>
       /\ ~last.panicked
       /\ last.ret = (IF ~last.recv.present \/ IsZeroValue(Mapped) THEN EmptyOptional
                      ELSE [EmptyOptional EXCEPT !.value = Mapped, !.present = TRUE])
  /\ (last.op \in TypedMapOps /\ last.recv.present) =>
       /\ ~last.panicked
       /\ last.ret.present
       /\ last.ret.value = Mapped

GenericMapToOps == {"Optional.MapToInt", "Optional.MapToFloat", "Optional.MapToString"}

\* the empty instance of the type an operation of GenericMapToOps returns
TargetOf(op) ==
  CASE op = "Optional.MapToInt" -> EmptyOptionalInt
    [] op = "Optional.MapToFloat" -> EmptyOptionalFloat
    [] op = "Optional.MapToString" -> EmptyOptionalString

\* C22 as stated: MapToInt, MapToFloat and MapToString of a present generic
\* Optional return the empty typed optional when the mapper returns the zero
\* value of the target type.
C22_GenericMapToDetectsZero ==
  (last.op \in GenericMapToOps /\ last.recv.present /\ Mapped = TargetOf(last.op).value) =>
    last.ret = TargetOf(last.op)

\* C22, amended: MapToInt, MapToFloat and MapToString of a present generic
\* Optional return a present typed optional holding the mapper's result, also
\* when it is the zero value of the target type; of an absent Optional they
\* return the empty typed optional.
C22_GenericMapToKeepsZero ==
  last.op \in GenericMapToOps =>
    /\ ~last.panicked
    /\ last.ret = (IF last.recv.present
                   THEN [TargetOf(last.op) EXCEPT !.value = Mapped, !.present = TRUE]
                   ELSE TargetOf(last.op))

\* MapToInt of a present Optional with a mapper that gives 0 returned a present OptionalInt holding 0
C22_Witness ==
  /\ last.op = "Optional.MapToInt"
  /\ last.recv.present
  /\ Mapped = 0
  /\ last.ret.present
  /\ last.ret.value = 0

(***************************************************************************)
(* Iter.                                                                   *)
(***************************************************************************)
IterOps == {"Optional.Iter", "OptionalInt.Iter", "OptionalString.Iter"}

\* what o.Iter() yields
IterOf(o) ==
  CASE o.type = "Optional" -> Optional_Iter(o)
    [] o.type = "OptionalInt" -> OptionalInt_Iter(o)
    [] o.type = "OptionalString" -> OptionalString_Iter(o)

\* C23: Iter() yields exactly one element, the contained value, when the
\* instance is present and no element when it is absent; it leaves the instance
\* as it was, and Iter() called again yields the same from the beginning.
C23_Iter ==
  last.op \in IterOps =>
    /\ ~last.panicked
    /\ last.ret = (IF last.recv.present THEN <<Contained(last.recv)>> ELSE <<>>)
    /\ inst = last.recv
    /\ IterOf(inst) = last.ret

\* Iter() of a present Optional yielded its one value
C23_Witness ==
  /\ last.op = "Optional.Iter"
  /\ last.recv.present
  /\ Len(last.ret) = 1
  /\ last.ret[1] = last.recv.value

(***************************************************************************)
(* The invocations of the caller's functions.                              *)
(***************************************************************************)
\* the operations that take a predicate or a mapper
MapperOps == FilterOps \cup FilterNotOps \cup MapOps \cup FlatMapOps \cup GenericMapToOps

\* C24: a call invokes each function the caller passed at most once; Filter,
\* FilterNot, Map, FlatMap, MapTo* and FlatMapTo* do not invoke theirs on an
\* absent receiver, OrElseGet and OrElsePanic do not invoke theirs on a present
\* receiver.
C24_InvokedAtMostOnce ==
  /\ \A fn \in {"predicate", "f", "supplier", "consumer"} : Len(InvocationsOf(fn)) <= 1
  /\ (last.op \in MapperOps /\ ~last.recv.present) => last.calls = <<>>
  /\ (last.op \in OrElseGetOps \cup OrElsePanicOps /\ last.recv.present) => last.calls = <<>>

\* OrElseGet of a present Optional returned its value and did not invoke the supplier
C24_Witness ==
  /\ last.op = "Optional.OrElseGet"
  /\ last.recv.present
  /\ last.ret = last.recv.value
  /\ last.calls = <<>>

(***************************************************************************)
(* Scan from two goroutines.                                               *)
(***************************************************************************)
\* o combines the value of one Scan with the present flag of another, or the
\* type of one value with the data of another
Torn(o) ==
  \/ o.value \notin ScanInputs
  \/ o.present # (o.value # Nil)

\* C25: Scan calls that the callers serialise always leave exactly the state of
\* the last call, and a reader under the same mutex never sees a torn state.
\* (That unserialised calls do produce a torn state is C25_Witness.)
C25_SerialisedScans ==
  serialised =>
    /\ mu = 0 => (inst.value = done /\ inst.present = (done # Nil))
    /\ ~Torn(seen)

\* two unserialised Scan calls have returned and left present == false with a
\* non-nil value, and a reader saw a torn state
C25_Witness ==
  /\ ~serialised
  /\ \A g \in Goroutines : pc[g] = "idle"
  /\ inst.value = BoxInt(1)
  /\ ~inst.present
  /\ Torn(seen)

(***************************************************************************)
(* The zero value of the structs.                                          *)
(***************************************************************************)
\* var o T: the zero-initialized instance of a variant
ZeroInstance(type) ==
  CASE type = "Optional" -> EmptyOptional
    [] type = "OptionalInt" -> EmptyOptionalInt
    [] type = "OptionalFloat" -> EmptyOptionalFloat
    [] type = "OptionalString" -> EmptyOptionalString

\* o.Equal(opt)
EqualOf(o, opt) ==
  CASE o.type = "Optional" -> Optional_Equal(o, opt)
    [] o.type = "OptionalInt" -> OptionalInt_Equal(o, opt)
    [] o.type = "OptionalFloat" -> OptionalFloat_Equal(o, opt)
    [] o.type = "OptionalString" -> OptionalString_Equal(o, opt)

\* how o.MustGet() ends
MustGetOf(o) ==
  CASE o.type = "Optional" -> Optional_MustGet(o)
    [] o.type = "OptionalInt" -> OptionalInt_MustGet(o)
    [] o.type = "OptionalFloat" -> OptionalFloat_MustGet(o)
    [] o.type = "OptionalString" -> OptionalString_MustGet(o)

\* C26: the zero-initialized instance of a variant is the instance that Of(),
\* OfInt(), OfFloat() or OfString() returns, field by field, so every operation
\* does on the one what it does on the other: it is absent, each is Equal to
\* the other, and MustGet on either panics with the not-present error.
C26_ZeroIsEmpty ==
  (last.op \in ConstructorOps /\ last.args = <<>>) =>
    LET zero == ZeroInstance(inst.type)
    IN  /\ last.ret = zero
        /\ inst = zero
        /\ ~zero.present
        /\ EqualOf(zero, inst)
        /\ EqualOf(inst, zero)
        /\ MustGetOf(zero) = MustGetOf(inst)
        /\ MustGetOf(zero).panicked
        /\ MustGetOf(zero).panicVal = (IF inst.type = "Optional" THEN errNotPresent ELSE notPresentError)

\* OfString() returned the zero OptionalString
C26_Witness ==
  /\ last.op = "OfString"
  /\ last.args = <<>>
  /\ inst = EmptyOptionalString

(***************************************************************************)
(* Presence over the life of an instance.                                  *)
(***************************************************************************)
TypedVariants == {"OptionalInt", "OptionalFloat", "OptionalString"}

\* C27: once an instance of a typed variant is present, no operation on it
\* makes it absent: every Scan, whether it succeeds (nil included) or fails,
\* leaves present == true.  A constructor step gives the client a new instance.
C27_TypedStaysPresent ==
  [][(inst.type \in TypedVariants /\ inst.present /\ last'.op \notin ConstructorOps)
       => inst'.present]_vars

\* a present OptionalFloat was scanned with nil and is present with 0.0
C27_Witness ==
  /\ last.op = "OptionalFloat.Scan"
  /\ last.recv.present
  /\ last.args[1] = Nil
  /\ inst.present
  /\ inst.value = F(0)

(***************************************************************************)
(* Scan against the constructor, and the identity laws.                    *)
(***************************************************************************)
\* C28: a generic Optional after Scan(v) has the presence of Of(v) and is
\* Equal to Of(v), for every raw value v
C28_ScanAgreesWithOf ==
  last.op = "Optional.Scan" =>
    LET v == last.args[1]
    IN  /\ inst.present = Of(<<v>>).present
        /\ Optional_Equal(inst, Of(<<v>>))

\* C29: for every generic Optional o the client can hold, o.Map(identity) is
\* Equal to o and o.FlatMap(Of) is Equal to o
C29_IdentityLaws ==
  LET o == last.recv
  IN  /\ (last.op = "Optional.Map" /\ last.args = <<[x \in {o.value} |-> x], <<>>>>)
           => Optional_Equal(last.ret, o)
      /\ (last.op = "Optional.FlatMap" /\ last.args = <<[x \in {o.value} |-> Of(<<x>>)]>>)
           => Optional_Equal(last.ret, o)

(***************************************************************************)
(* EqualValue against Equal of the wrapped value.                          *)
(***************************************************************************)
EqualValueOps ==
  {"Optional.EqualValue", "OptionalInt.EqualValue", "OptionalFloat.EqualValue", "OptionalString.EqualValue"}

\* o.Equal(OfInt(x)), o.Equal(OfFloat(x)), o.Equal(OfString(x)) for the typed variants
TypedEqualOfWrapped(o, x) ==
  CASE o.type = "OptionalInt" -> OptionalInt_Equal(o, OfInt(<<x>>))
    [] o.type = "OptionalFloat" -> OptionalFloat_Equal(o, OfFloat(<<x>>))
    [] o.type = "OptionalString" -> OptionalString_Equal(o, OfString(<<x>>))

\* C30 as stated: o.EqualValue(x) equals o.Equal(Of(x)) (OfInt(x), OfFloat(x),
\* OfString(x)) for every instance o and every bare value x, a nil x of the
\* generic variant included
C30_EqualValueIsEqualOfWrapped ==
  last.op \in EqualValueOps =>
    LET o == last.recv
        x == last.args[1]
    IN  IF o.type = "Optional" THEN last.ret <=> Optional_Equal(o, Of(<<x>>))
        ELSE last.ret <=> TypedEqualOfWrapped(o, x)

\* C30: o.EqualValue(x) equals o.Equal of the wrapped x for the typed variants,
\* and for the generic variant when x is not nil; for a nil x, Of(x) is empty,
\* so Equal is true of an absent o alone, while EqualValue is false of an
\* absent o and true only of an o that holds that same nil value
C30_EqualValueOfNonNil ==
  last.op \in EqualValueOps =>
    LET o == last.recv
        x == last.args[1]
    IN  IF o.type # "Optional" THEN last.ret <=> TypedEqualOfWrapped(o, x)
        ELSE IF ~IsNil(x) THEN last.ret <=> Optional_Equal(o, Of(<<x>>))
        ELSE /\ Optional_Equal(o, Of(<<x>>)) <=> ~o.present
             /\ last.ret <=> (o.present /\ IsNil(o.value) /\ o.value = x)

\* an absent Optional was compared with the bare nil: EqualValue is false, Equal(Of(nil)) is true
C30_Witness ==
  /\ last.op = "Optional.EqualValue"
  /\ ~last.recv.present
  /\ last.args[1] = Nil
  /\ ~last.ret
  /\ Optional_Equal(last.recv, Of(<<Nil>>))

====
